---- MODULE Spec2Model ----
(***************************************************************************)
(* Model of the multi-tenant configuration, request-dispatch and metrics   *)
(* cache layer of prometheus_mcp_server/server.py.                         *)
(*                                                                         *)
(* Encoding of Python values:                                              *)
(*   Optional[T]   None is <<>>, a present value v is <<v>>                *)
(*   dict          a function from keys to values; the tenant registry,    *)
(*                 whose insertion order matters, is a sequence of         *)
(*                 TenantConfig records with pairwise distinct names       *)
(*   exceptions    the field "raised" of an operation's outcome ("" when   *)
(*                 the operation returned)                                 *)
(***************************************************************************)
EXTENDS Integers, Sequences, FiniteSets, TLC

VARIABLES config, _metrics_cache, now, ticks, last, threads, stored

vars == <<config, _metrics_cache, now, ticks, last, threads, stored>>

(***************************************************************************)
(* Python values                                                           *)
(***************************************************************************)
None == <<>>

Some(v) == <<v>>

\* bool(x) of an Optional[str]: None and "" are falsy
Truthy(o) == o # None /\ o[1] # ""

\* bool(x) of an Optional[dict]: None and {} are falsy
TruthyDict(o) == o # None /\ DOMAIN o[1] # {}

\* a or b
Or(a, b) == IF Truthy(a) THEN a ELSE b

EmptyDict == <<>>

\* d.update(u): the keys of u win
DictUpdate(d, u) == [k \in (DOMAIN d) \cup (DOMAIN u) |-> IF k \in DOMAIN u THEN u[k] ELSE d[k]]

\* mutant of Keys: the first key is left out
KeysAfterFirst(tenants) == [i \in 1..(Len(tenants) - 1) |-> tenants[i + 1].name]

\* the keys of the registry, in insertion order
Keys(tenants) == [i \in 1..Len(tenants) |-> tenants[i].name]

\* name in tenants
HasKey(tenants, name) == \E i \in 1..Len(tenants) : tenants[i].name = name

\* tenants[name]
Lookup(tenants, name) == tenants[CHOOSE i \in 1..Len(tenants) : tenants[i].name = name]

(***************************************************************************)
(* Bounds                                                                  *)
(***************************************************************************)
\* longest tenant array drawn for PROMETHEUS_TENANTS
MaxTenants == 2

\* number of clock advances in one behaviour
MaxTicks == 2

(***************************************************************************)
(* Tenant definitions: PROMETHEUS_TENANTS after json.loads.  kind is       *)
(* "empty" (the falsy string), "invalid" (JSONDecodeError), "notlist" (a   *)
(* JSON value that is not an array) or "list" with the array's elements.   *)
(* An element is a JSON object (is_dict) whose absent keys read as None,   *)
(* or some other JSON value.                                               *)
(***************************************************************************)
EntryObject(name, url, username, password, token, org_id, headers, headers_is_dict) ==
    [is_dict |-> TRUE, name |-> name, url |-> url, url_ssl_verify |-> None,
     username |-> username, password |-> password, token |-> token, org_id |-> org_id,
     custom_headers |-> headers, custom_headers_is_dict |-> headers_is_dict]

EntryProd ==
    EntryObject(Some("prod"), Some("https://p"), None, None, Some("ptok"), Some("org-prod"),
                Some([h \in {"X-Test"} |-> "value"]), TRUE)

EntryStaging ==
    EntryObject(Some("staging"), Some("https://s/"), Some("u"), Some("p"), None, None, None, TRUE)

EntryNoName ==
    EntryObject(None, Some("https://n"), None, None, None, None, None, TRUE)

EntryEmptyUrl ==
    EntryObject(Some("staging"), Some(""), None, None, None, None, None, TRUE)

EntryBadHeaders ==
    EntryObject(Some("prod"), Some("https://p"), None, None, None, None, Some(EmptyDict), FALSE)

EntryNotObject == [EntryNoName EXCEPT !.is_dict = FALSE]

Entries == {EntryProd, EntryStaging, EntryNoName, EntryEmptyUrl, EntryBadHeaders, EntryNotObject}

\* a tenant that declares no credentials, no org id and an empty header object
EntryBare ==
    EntryObject(Some("bare"), Some("https://b"), None, None, None, None, Some(EmptyDict), TRUE)

RawEmpty == [kind |-> "empty", items |-> <<>>]

RawInvalid == [kind |-> "invalid", items |-> <<>>]

RawNotList == [kind |-> "notlist", items |-> <<>>]

RawList(items) == [kind |-> "list", items |-> items]

EntryLists == UNION {[1..n -> Entries] : n \in 0..MaxTenants}

Raws == {RawEmpty, RawInvalid, RawNotList} \cup {RawList(items) : items \in EntryLists}

DefaultTenantEnvs == {Some(""), Some("staging"), Some("ghost")}

GlobalHeaders == {None, Some(EmptyDict), Some([h \in {"X-Global", "X-Test"} |-> "global"])}

TenantArgs == {None, Some(""), Some("prod"), Some("staging"), Some("ghost")}

(***************************************************************************)
(* _parse_bool, for the JSON values null, true and false                   *)
(***************************************************************************)
ParseBool(value, default) == IF value = None THEN default ELSE value[1]

(***************************************************************************)
(* _load_tenants                                                           *)
(***************************************************************************)
ConfigError(msg) == [raised |-> "ConfigError", msg |-> msg, tenants |-> <<>>, default_tenant |-> None]

\* mutant of CombinedHeaders: on a shared key the global value is kept
CombinedHeadersBaseWins(base_custom_headers, tenant_custom_headers) ==
    IF TruthyDict(base_custom_headers) \/ TruthyDict(tenant_custom_headers)
    THEN LET base == IF TruthyDict(base_custom_headers) THEN base_custom_headers[1] ELSE EmptyDict
         IN  Some(IF TruthyDict(tenant_custom_headers)
                  THEN DictUpdate(tenant_custom_headers[1], base)
                  ELSE base)
    ELSE None

CombinedHeaders(base_custom_headers, tenant_custom_headers) ==
    IF TruthyDict(base_custom_headers) \/ TruthyDict(tenant_custom_headers)
    THEN LET base == IF TruthyDict(base_custom_headers) THEN base_custom_headers[1] ELSE EmptyDict
         IN  Some(IF TruthyDict(tenant_custom_headers)
                  THEN DictUpdate(base, tenant_custom_headers[1])
                  ELSE base)
    ELSE None

TenantConfig(entry, base_url_ssl_verify, base_custom_headers) ==
    [name |-> entry.name[1],
     url |-> entry.url[1],
     url_ssl_verify |-> ParseBool(entry.url_ssl_verify, base_url_ssl_verify),
     username |-> entry.username,
     password |-> entry.password,
     token |-> entry.token,
     org_id |-> entry.org_id,
     custom_headers |-> CombinedHeaders(base_custom_headers, entry.custom_headers)]

\* mutant of Insert: the new tenant is put before the ones already stored
InsertFirst(tenants, tenant) == <<tenant>> \o tenants

\* tenants[name] = TenantConfig(...) for a name that is not yet a key
Insert(tenants, tenant) == Append(tenants, tenant)

RECURSIVE ParseEntries(_, _, _, _, _)
ParseEntries(items, idx, tenants, base_url_ssl_verify, base_custom_headers) ==
    IF idx > Len(items)
    THEN [raised |-> "", msg |-> "", tenants |-> tenants, default_tenant |-> None]
    ELSE LET entry == items[idx] IN
         IF ~entry.is_dict
         THEN ConfigError("must be an object")
         ELSE IF ~Truthy(entry.name) \/ ~Truthy(entry.url)
         THEN ConfigError("requires 'name' and 'url'")
         ELSE IF HasKey(tenants, entry.name[1])
         THEN ConfigError("Duplicate tenant name")
         ELSE IF entry.custom_headers # None /\ ~entry.custom_headers_is_dict
         THEN ConfigError("custom_headers must be an object")
         ELSE ParseEntries(items, idx + 1,
                           Insert(tenants, TenantConfig(entry, base_url_ssl_verify, base_custom_headers)),
                           base_url_ssl_verify, base_custom_headers)

\* the default tenant, once every entry is parsed
DefaultName(parsed, default_tenant_env) ==
    LET default_name == Or(default_tenant_env, None) IN
    IF parsed.raised # ""
    THEN parsed
    ELSE IF Truthy(default_name)
    THEN IF ~HasKey(parsed.tenants, default_name[1])
         THEN ConfigError("PROMETHEUS_DEFAULT_TENANT not found")
         ELSE [parsed EXCEPT !.default_tenant = default_name]
    ELSE [parsed EXCEPT !.default_tenant =
              IF Len(parsed.tenants) > 0 THEN Some(parsed.tenants[1].name) ELSE None]

LoadTenants(raw, default_tenant_env, base_url_ssl_verify, base_custom_headers) ==
    IF raw.kind = "empty"
    THEN [raised |-> "", msg |-> "", tenants |-> <<>>, default_tenant |-> None]
    ELSE IF raw.kind = "invalid"
    THEN ConfigError("Invalid PROMETHEUS_TENANTS JSON")
    ELSE IF raw.kind # "list"
    THEN ConfigError("must be a JSON array")
    ELSE DefaultName(ParseEntries(raw.items, 1, <<>>, base_url_ssl_verify, base_custom_headers),
                     default_tenant_env)

(***************************************************************************)
(* initialize_tenants: the outcome is the exception raised ("" for none)   *)
(* and the configuration the call leaves behind.                           *)
(***************************************************************************)
\* the module-level config is constructed as a PrometheusConfig
IsPrometheusConfig(c) == TRUE

\* tenants_raw is a field of the dataclass
HasTenantsRaw(c) == TRUE

\* mutant of TenantsIsDict: "if config.tenants" in place of the isinstance test
TenantsIsTruthy(c) == c.tenants # None /\ Len(c.tenants[1]) > 0

\* isinstance(config.tenants, dict)
TenantsIsDict(c) == c.tenants # None

\* mutant of StoreTenants: the registry is cleared before the definition is parsed
StoreTenantsCleared(c, loaded) ==
    IF loaded.raised # ""
    THEN [raised |-> loaded.raised, msg |-> loaded.msg,
          config |-> [c EXCEPT !.tenants = Some(<<>>), !.default_tenant = None]]
    ELSE [raised |-> "", msg |-> "",
          config |-> [c EXCEPT !.tenants = Some(loaded.tenants),
                               !.default_tenant = loaded.default_tenant]]

\* config.tenants = tenants; config.default_tenant = default_tenant, which
\* an exception raised by _load_tenants never reaches
StoreTenants(c, loaded) ==
    IF loaded.raised # ""
    THEN [raised |-> loaded.raised, msg |-> loaded.msg, config |-> c]
    ELSE [raised |-> "", msg |-> "",
          config |-> [c EXCEPT !.tenants = Some(loaded.tenants),
                               !.default_tenant = loaded.default_tenant]]

InitializeTenants(c) ==
    IF ~IsPrometheusConfig(c)
    THEN [raised |-> "", msg |-> "", config |-> [c EXCEPT !.tenants = Some(<<>>), !.default_tenant = None]]
    ELSE IF TenantsIsDict(c)
    THEN [raised |-> "", msg |-> "", config |-> c]
    ELSE IF ~HasTenantsRaw(c)
    THEN [raised |-> "", msg |-> "", config |-> [c EXCEPT !.tenants = Some(<<>>), !.default_tenant = None]]
    ELSE StoreTenants(c, LoadTenants(c.tenants_raw, c.default_tenant_env, c.url_ssl_verify,
                                     c.custom_headers))

\* mutant of TenantsEnabled: the length test is left out
TenantsEnabledWhenDict(c) == c.tenants # None

\* _tenants_enabled
TenantsEnabled(c) == TenantsIsDict(c) /\ Len(c.tenants[1]) > 0

(***************************************************************************)
(* _resolve_tenant: value is the TenantConfig, or None for the global      *)
(* backend.                                                                *)
(***************************************************************************)
\* mutant of SelectTenant: a failed initialization selects the global backend
SelectTenantGlobalOnError(init, tenant) ==
    LET selected == Or(tenant, init.config.default_tenant) IN
    IF init.raised # ""
    THEN [raised |-> "", msg |-> "", names |-> <<>>, config |-> init.config, value |-> None]
    ELSE IF ~TenantsEnabled(init.config)
    THEN [raised |-> "", msg |-> "", names |-> <<>>, config |-> init.config, value |-> None]
    ELSE IF ~Truthy(selected)
    THEN [raised |-> "UnknownTenant", msg |-> "No tenant specified", names |-> <<>>,
          config |-> init.config, value |-> None]
    ELSE IF ~HasKey(init.config.tenants[1], selected[1])
    THEN [raised |-> "UnknownTenant", msg |-> "Unknown tenant",
          names |-> Keys(init.config.tenants[1]), config |-> init.config, value |-> None]
    ELSE [raised |-> "", msg |-> "", names |-> <<>>, config |-> init.config,
          value |-> Some(Lookup(init.config.tenants[1], selected[1]))]

\* the body after initialize_tenants() has returned or raised
SelectTenant(init, tenant) ==
    LET selected == Or(tenant, init.config.default_tenant) IN
    IF init.raised # ""
    THEN [raised |-> init.raised, msg |-> init.msg, names |-> <<>>, config |-> init.config, value |-> None]
    ELSE IF ~TenantsEnabled(init.config)
    THEN [raised |-> "", msg |-> "", names |-> <<>>, config |-> init.config, value |-> None]
    ELSE IF ~Truthy(selected)
    THEN [raised |-> "UnknownTenant", msg |-> "No tenant specified", names |-> <<>>,
          config |-> init.config, value |-> None]
    ELSE IF ~HasKey(init.config.tenants[1], selected[1])
    THEN [raised |-> "UnknownTenant", msg |-> "Unknown tenant",
          names |-> Keys(init.config.tenants[1]), config |-> init.config, value |-> None]
    ELSE [raised |-> "", msg |-> "", names |-> <<>>, config |-> init.config,
          value |-> Some(Lookup(init.config.tenants[1], selected[1]))]

ResolveTenant(c, tenant) == SelectTenant(InitializeTenants(c), tenant)

(***************************************************************************)
(* get_prometheus_auth: the artifact is a header dict (bearer token), an   *)
(* HTTPBasicAuth pair, or None.                                             *)
(***************************************************************************)
AuthNone == [type |-> "None", dict |-> EmptyDict, username |-> "", password |-> ""]

AuthBearer(token) ==
    [type |-> "dict", dict |-> [h \in {"Authorization"} |-> "Bearer " \o token],
     username |-> "", password |-> ""]

AuthBasic(username, password) ==
    [type |-> "HTTPBasicAuth", dict |-> EmptyDict, username |-> username, password |-> password]

\* mutant of GetPrometheusAuth: basic auth is tried before the token
GetPrometheusAuthBasicFirst(c, username, password, token) ==
    LET fallback == username = None /\ password = None /\ token = None
        u == IF fallback THEN c.username ELSE username
        p == IF fallback THEN c.password ELSE password
        t == IF fallback THEN c.token ELSE token
    IN  IF Truthy(u) /\ Truthy(p) THEN AuthBasic(u[1], p[1])
        ELSE IF Truthy(t) THEN AuthBearer(t[1])
        ELSE AuthNone

GetPrometheusAuth(c, username, password, token) ==
    LET fallback == username = None /\ password = None /\ token = None
        u == IF fallback THEN c.username ELSE username
        p == IF fallback THEN c.password ELSE password
        t == IF fallback THEN c.token ELSE token
    IN  IF Truthy(t) THEN AuthBearer(t[1])
        ELSE IF Truthy(u) /\ Truthy(p) THEN AuthBasic(u[1], p[1])
        ELSE AuthNone

(***************************************************************************)
(* _get_base_url                                                           *)
(***************************************************************************)
\* tenant_config.url if tenant_config else config.url
BaseUrl(r) ==
    [raised |-> r.raised, msg |-> r.msg, names |-> r.names, config |-> r.config,
     value |-> IF r.raised = "" /\ r.value # None THEN r.value[1].url ELSE r.config.url]

GetBaseUrl(c, tenant) == BaseUrl(ResolveTenant(c, tenant))

\* url.rstrip('/') on the base URLs of the model, none of which ends in "//"
RStripSlash(url) ==
    CASE url = "https://s/" -> "https://s"
      [] url = "http://g/" -> "http://g"
      [] OTHER -> url

(***************************************************************************)
(* Python values carried as response data: a list of strings, a dict       *)
(* (its keys), or None.                                                    *)
(***************************************************************************)
PyNone == [type |-> "None", items |-> <<>>]

PyList(items) == [type |-> "list", items |-> items]

PyDict(keys) == [type |-> "dict", items |-> keys]

(***************************************************************************)
(* What the backend answers to one GET.  transport is "ok" or the          *)
(* RequestException the session raises; http_ok is what raise_for_status   *)
(* accepts; body is "json" or the exception response.json() raises         *)
(* (requests.exceptions.JSONDecodeError is a RequestException,             *)
(* json.JSONDecodeError is not); the rest is the decoded envelope.         *)
(***************************************************************************)
Envelope(status, error, data) ==
    [transport |-> "ok", http_ok |-> TRUE, body |-> "json",
     has_status |-> TRUE, status |-> status,
     has_error |-> error # None, error |-> IF error # None THEN error[1] ELSE "",
     has_data |-> data # None, data |-> IF data # None THEN data[1] ELSE PyNone]

Success(data) == Envelope("success", None, Some(data))

ConnectionError == [Success(PyNone) EXCEPT !.transport = "ConnectionError"]

Timeout == [Success(PyNone) EXCEPT !.transport = "Timeout"]

HttpError(envelope) == [envelope EXCEPT !.http_ok = FALSE]

BadJson(exception) == [Success(PyNone) EXCEPT !.body = exception]

NoResponse == [Success(PyNone) EXCEPT !.transport = "not sent"]

MetricLists == {PyList(<<>>), PyList(<<"go_info", "up">>)}

FailureResponses ==
    {ConnectionError, Timeout,
     HttpError(Success(PyList(<<"up">>))),
     HttpError(Envelope("error", Some("bad_data"), None)),
     HttpError(BadJson("json.JSONDecodeError")),
     BadJson("json.JSONDecodeError"), BadJson("requests.exceptions.JSONDecodeError"),
     Envelope("error", Some("bad_data"), None),
     Envelope("error", None, None),
     Envelope("error", Some("partial"), Some(PyList(<<"up">>))),
     [Success(PyList(<<"up">>)) EXCEPT !.has_status = FALSE],
     Envelope("success", None, None)}

Responses ==
    FailureResponses \cup {Success(d) : d \in MetricLists}
                     \cup {Success(PyDict(<<"resultType", "result">>)), Success(PyNone)}

(***************************************************************************)
(* make_prometheus_request: the outcome carries the exception raised, the  *)
(* value returned, the configuration left behind by the lazy               *)
(* initialization, and the GET that was issued (None when none was).       *)
(***************************************************************************)
Failed(raised, msg, names, c, sent) ==
    [raised |-> raised, msg |-> msg, names |-> names, config |-> c, value |-> PyNone, sent |-> sent]

\* headers = {}; headers.update(auth) for token auth
AuthHeaders(auth) == IF auth.type = "dict" THEN DictUpdate(EmptyDict, auth.dict) ELSE EmptyDict

\* headers["X-Scope-OrgID"] = org_id when an org id is set
OrgIdHeaders(headers, org_id) ==
    IF Truthy(org_id) THEN DictUpdate(headers, [h \in {"X-Scope-OrgID"} |-> org_id[1]]) ELSE headers

\* headers.update(custom_headers) when there are any
CustomHeaders(headers, custom_headers) ==
    IF TruthyDict(custom_headers) THEN DictUpdate(headers, custom_headers[1]) ELSE headers

\* the headers of the request, in the order the code fills them
RequestHeaders(auth, org_id, custom_headers) ==
    CustomHeaders(OrgIdHeaders(AuthHeaders(auth), org_id), custom_headers)

\* mutant of Classify: the backend's error string is raised without the prefix
ClassifyWithoutPrefix(c, sent, response) ==
    IF response.transport # "ok"
    THEN Failed(response.transport, "", <<>>, c, sent)
    ELSE IF ~response.http_ok
    THEN Failed("HTTPError", "", <<>>, c, sent)
    ELSE IF response.body = "requests.exceptions.JSONDecodeError"
    THEN Failed("requests.exceptions.JSONDecodeError", "", <<>>, c, sent)
    ELSE IF response.body # "json"
    THEN Failed("DecodeError", "Invalid JSON response from Prometheus", <<>>, c, sent)
    ELSE IF ~response.has_status
    THEN Failed("KeyError", "status", <<>>, c, sent)
    ELSE IF response.status # "success"
    THEN Failed("UpstreamError",
                IF response.has_error THEN response.error ELSE "Unknown error",
                <<>>, c, sent)
    ELSE IF ~response.has_data
    THEN Failed("KeyError", "data", <<>>, c, sent)
    ELSE [raised |-> "", msg |-> "", names |-> <<>>, config |-> c, value |-> response.data, sent |-> sent]

\* mutant of Classify: the envelope's status is read before the HTTP status
ClassifyEnvelopeFirst(c, sent, response) ==
    IF response.transport # "ok"
    THEN Failed(response.transport, "", <<>>, c, sent)
    ELSE IF response.body = "json" /\ response.has_status /\ response.status # "success"
    THEN Failed("UpstreamError",
                "Prometheus API error: " \o (IF response.has_error THEN response.error ELSE "Unknown error"),
                <<>>, c, sent)
    ELSE IF ~response.http_ok
    THEN Failed("HTTPError", "", <<>>, c, sent)
    ELSE IF response.body = "requests.exceptions.JSONDecodeError"
    THEN Failed("requests.exceptions.JSONDecodeError", "", <<>>, c, sent)
    ELSE IF response.body # "json"
    THEN Failed("DecodeError", "Invalid JSON response from Prometheus", <<>>, c, sent)
    ELSE IF ~response.has_status
    THEN Failed("KeyError", "status", <<>>, c, sent)
    ELSE IF ~response.has_data
    THEN Failed("KeyError", "data", <<>>, c, sent)
    ELSE [raised |-> "", msg |-> "", names |-> <<>>, config |-> c, value |-> response.data, sent |-> sent]

\* mutant of Classify: a GET that fails in transport is issued a second time
ClassifyRetrying(c, sent, response) ==
    IF response.transport # "ok"
    THEN Failed(response.transport, "", <<>>, c, sent \o sent)
    ELSE IF ~response.http_ok
    THEN Failed("HTTPError", "", <<>>, c, sent)
    ELSE IF response.body = "requests.exceptions.JSONDecodeError"
    THEN Failed("requests.exceptions.JSONDecodeError", "", <<>>, c, sent)
    ELSE IF response.body # "json"
    THEN Failed("DecodeError", "Invalid JSON response from Prometheus", <<>>, c, sent)
    ELSE IF ~response.has_status
    THEN Failed("KeyError", "status", <<>>, c, sent)
    ELSE IF response.status # "success"
    THEN Failed("UpstreamError",
                "Prometheus API error: " \o (IF response.has_error THEN response.error ELSE "Unknown error"),
                <<>>, c, sent)
    ELSE IF ~response.has_data
    THEN Failed("KeyError", "data", <<>>, c, sent)
    ELSE [raised |-> "", msg |-> "", names |-> <<>>, config |-> c, value |-> response.data, sent |-> sent]

\* the try block: the GET, raise_for_status, response.json() and the envelope
Classify(c, sent, response) ==
    IF response.transport # "ok"
    THEN Failed(response.transport, "", <<>>, c, sent)
    ELSE IF ~response.http_ok
    THEN Failed("HTTPError", "", <<>>, c, sent)
    ELSE IF response.body = "requests.exceptions.JSONDecodeError"
    THEN Failed("requests.exceptions.JSONDecodeError", "", <<>>, c, sent)
    ELSE IF response.body # "json"
    THEN Failed("DecodeError", "Invalid JSON response from Prometheus", <<>>, c, sent)
    ELSE IF ~response.has_status
    THEN Failed("KeyError", "status", <<>>, c, sent)
    ELSE IF response.status # "success"
    THEN Failed("UpstreamError",
                "Prometheus API error: " \o (IF response.has_error THEN response.error ELSE "Unknown error"),
                <<>>, c, sent)
    ELSE IF ~response.has_data
    THEN Failed("KeyError", "data", <<>>, c, sent)
    ELSE [raised |-> "", msg |-> "", names |-> <<>>, config |-> c, value |-> response.data, sent |-> sent]

\* mutant of Request: the header dict is also passed as auth
RequestKeepingAuth(c, tenant_config, base_url, endpoint) ==
    LET url_ssl_verify == IF tenant_config # None THEN tenant_config[1].url_ssl_verify
                          ELSE c.url_ssl_verify
        url == RStripSlash(base_url) \o "/api/v1/" \o endpoint
        username == IF tenant_config # None THEN tenant_config[1].username ELSE c.username
        password == IF tenant_config # None THEN tenant_config[1].password ELSE c.password
        token == IF tenant_config # None THEN tenant_config[1].token ELSE c.token
        auth == GetPrometheusAuth(c, username, password, token)
        org_id == IF tenant_config # None /\ tenant_config[1].org_id # None
                  THEN tenant_config[1].org_id ELSE c.org_id
        custom_headers == IF tenant_config # None THEN tenant_config[1].custom_headers
                          ELSE c.custom_headers
    IN  [url |-> url,
         headers |-> RequestHeaders(auth, org_id, custom_headers),
         auth |-> auth,
         verify |-> url_ssl_verify]

\* the arguments of _session.get
Request(c, tenant_config, base_url, endpoint) ==
    LET url_ssl_verify == IF tenant_config # None THEN tenant_config[1].url_ssl_verify
                          ELSE c.url_ssl_verify
        url == RStripSlash(base_url) \o "/api/v1/" \o endpoint
        username == IF tenant_config # None THEN tenant_config[1].username ELSE c.username
        password == IF tenant_config # None THEN tenant_config[1].password ELSE c.password
        token == IF tenant_config # None THEN tenant_config[1].token ELSE c.token
        auth == GetPrometheusAuth(c, username, password, token)
        org_id == IF tenant_config # None /\ tenant_config[1].org_id # None
                  THEN tenant_config[1].org_id ELSE c.org_id
        custom_headers == IF tenant_config # None THEN tenant_config[1].custom_headers
                          ELSE c.custom_headers
    IN  [url |-> url,
         headers |-> RequestHeaders(auth, org_id, custom_headers),
         auth |-> IF auth.type = "dict" THEN AuthNone ELSE auth,
         verify |-> url_ssl_verify]

\* from url = _get_base_url(tenant) on
Send(tenant_config, base, endpoint, response) ==
    IF base.raised # ""
    THEN Failed(base.raised, base.msg, base.names, base.config, None)
    ELSE Classify(base.config, Some(Request(base.config, tenant_config, base.value, endpoint)), response)

\* mutant of Dispatch: the test for a missing URL is left out
DispatchWithoutUrlTest(r, endpoint, tenant, response) ==
    IF r.raised # ""
    THEN Failed(r.raised, r.msg, r.names, r.config, None)
    ELSE Send(r.value, GetBaseUrl(r.config, tenant), endpoint, response)

\* the body after _resolve_tenant(tenant) has returned or raised
Dispatch(r, endpoint, tenant, response) ==
    IF r.raised # ""
    THEN Failed(r.raised, r.msg, r.names, r.config, None)
    ELSE IF r.value = None /\ r.config.url = ""
    THEN Failed("ConfigMissing", "Prometheus configuration is missing", <<>>, r.config, None)
    ELSE Send(r.value, GetBaseUrl(r.config, tenant), endpoint, response)

MakePrometheusRequest(c, endpoint, tenant, response) ==
    Dispatch(ResolveTenant(c, tenant), endpoint, tenant, response)

(***************************************************************************)
(* _get_cache_key and get_cached_metrics                                   *)
(***************************************************************************)
_CACHE_TTL == 300

\* mutant of CacheKey: the default tenant is not consulted
CacheKeyWithoutDefault(init, tenant) ==
    IF init.raised # ""
    THEN [raised |-> init.raised, msg |-> init.msg, config |-> init.config, value |-> ""]
    ELSE [raised |-> "", msg |-> "", config |-> init.config,
          value |-> IF TenantsEnabled(init.config)
                    THEN Or(tenant, Some("default"))[1]
                    ELSE "default"]

\* the body after initialize_tenants() has returned or raised
CacheKey(init, tenant) ==
    IF init.raised # ""
    THEN [raised |-> init.raised, msg |-> init.msg, config |-> init.config, value |-> ""]
    ELSE [raised |-> "", msg |-> "", config |-> init.config,
          value |-> IF TenantsEnabled(init.config)
                    THEN Or(Or(tenant, init.config.default_tenant), Some("default"))[1]
                    ELSE "default"]

GetCacheKey(c, tenant) == CacheKey(InitializeTenants(c), tenant)

\* _metrics_cache.get(cache_key, {"data": None, "timestamp": 0})
CacheGet(cache, cache_key) ==
    IF cache_key \in DOMAIN cache THEN cache[cache_key] ELSE [data |-> PyNone, timestamp |-> 0]

\* mutant of CacheValid: an entry exactly _CACHE_TTL seconds old is still served
CacheValidInclusive(cache_entry, current_time) ==
    cache_entry.data # PyNone /\ (current_time - cache_entry.timestamp) <= _CACHE_TTL

\* the entry is served without a fetch
CacheValid(cache_entry, current_time) ==
    cache_entry.data # PyNone /\ (current_time - cache_entry.timestamp) < _CACHE_TTL

\* mutant of CachePut: the dict is replaced by one that holds the new entry only
CachePutAlone(cache, cache_key, data, current_time) ==
    [k \in {cache_key} |-> [data |-> data, timestamp |-> current_time]]

\* mutant of CachePut: the data is written into the entry that is there, and
\* the timestamp is left for a later statement
CachePutDataFirst(cache, cache_key, data, current_time) ==
    [k \in (DOMAIN cache) \cup {cache_key} |->
        IF k = cache_key
        THEN [data |-> data,
              timestamp |-> IF cache_key \in DOMAIN cache THEN cache[cache_key].timestamp ELSE 0]
        ELSE cache[k]]

\* _metrics_cache[cache_key] = {"data": data, "timestamp": current_time}
CachePut(cache, cache_key, data, current_time) ==
    [k \in (DOMAIN cache) \cup {cache_key} |->
        IF k = cache_key THEN [data |-> data, timestamp |-> current_time] ELSE cache[k]]

\* mutant of Refresh: a failed fetch answers [] although an entry is stored
RefreshWithoutFallback(req, cache, cache_key, cache_entry, current_time) ==
    IF req.raised # ""
    THEN [raised |-> "", msg |-> "", config |-> req.config, cache |-> cache, key |-> cache_key,
          value |-> PyList(<<>>), sent |-> req.sent]
    ELSE [raised |-> "", msg |-> "", config |-> req.config,
          cache |-> CachePut(cache, cache_key, req.value, current_time), key |-> cache_key,
          value |-> req.value, sent |-> req.sent]

\* the try block: the fetch, the store, and the fallback of except Exception
\* (len(data) raises TypeError after the store when data is None)
Refresh(req, cache, cache_key, cache_entry, current_time) ==
    IF req.raised # ""
    THEN [raised |-> "", msg |-> "", config |-> req.config, cache |-> cache, key |-> cache_key,
          value |-> IF cache_entry.data # PyNone THEN cache_entry.data ELSE PyList(<<>>),
          sent |-> req.sent]
    ELSE IF req.value = PyNone
    THEN [raised |-> "", msg |-> "", config |-> req.config,
          cache |-> CachePut(cache, cache_key, req.value, current_time), key |-> cache_key,
          value |-> IF cache_entry.data # PyNone THEN cache_entry.data ELSE PyList(<<>>),
          sent |-> req.sent]
    ELSE [raised |-> "", msg |-> "", config |-> req.config,
          cache |-> CachePut(cache, cache_key, req.value, current_time), key |-> cache_key,
          value |-> req.value, sent |-> req.sent]

\* the body after _get_cache_key(tenant) has returned or raised
CachedOrFresh(key, cache, current_time, tenant, response) ==
    IF key.raised # ""
    THEN [raised |-> key.raised, msg |-> key.msg, config |-> key.config, cache |-> cache,
          key |-> "", value |-> PyNone, sent |-> None]
    ELSE IF CacheValid(CacheGet(cache, key.value), current_time)
    THEN [raised |-> "", msg |-> "", config |-> key.config, cache |-> cache,
          key |-> key.value, value |-> CacheGet(cache, key.value).data, sent |-> None]
    ELSE Refresh(MakePrometheusRequest(key.config, "label/__name__/values", tenant, response),
                 cache, key.value, CacheGet(cache, key.value), current_time)

\* the outcome: exception raised, value returned, configuration and cache
\* left behind, and the GET issued
GetCachedMetrics(c, cache, current_time, tenant, response) ==
    CachedOrFresh(GetCacheKey(c, tenant), cache, current_time, tenant, response)

(***************************************************************************)
(* list_metrics, called with its default arguments (no limit, offset 0,    *)
(* no filter, no progress context): the names are fetched with             *)
(* make_prometheus_request and the page data[0:len(data)] is returned.     *)
(***************************************************************************)
\* the body after make_prometheus_request has returned or raised
ListMetricsPage(req) ==
    IF req.raised # ""
    THEN req
    ELSE [req EXCEPT !.value = PyList(SubSeq(req.value.items, 1, Len(req.value.items)))]

ListMetrics(c, tenant, response) ==
    ListMetricsPage(MakePrometheusRequest(c, "label/__name__/values", tenant, response))

(***************************************************************************)
(* health_check: the outcome is the "status" of the dict returned, the     *)
(* "prometheus_connectivity" entry ("" when there is none), and the GET    *)
(* the probe issued.                                                       *)
(***************************************************************************)
Health(status, connectivity, c, sent) ==
    [status |-> status, connectivity |-> connectivity, config |-> c, sent |-> sent]

\* health_status["prometheus_url"] = _get_base_url(config.default_tenant)
HealthUrl(req, base) ==
    IF base.raised # ""
    THEN Health("degraded", "unhealthy", base.config, req.sent)
    ELSE Health("healthy", "healthy", base.config, req.sent)

\* mutant of HealthProbe: a failed probe is reported as unhealthy
HealthProbeUnhealthy(req) ==
    IF req.raised # ""
    THEN Health("unhealthy", "unhealthy", req.config, req.sent)
    ELSE HealthUrl(req, GetBaseUrl(req.config, req.config.default_tenant))

\* the inner try block, after make_prometheus_request has returned or raised
HealthProbe(req) ==
    IF req.raised # ""
    THEN Health("degraded", "unhealthy", req.config, req.sent)
    ELSE HealthUrl(req, GetBaseUrl(req.config, req.config.default_tenant))

\* the outer try block, after initialize_tenants() has returned or raised
HealthAfterInitialize(init, response) ==
    IF init.raised # ""
    THEN Health("unhealthy", "", init.config, None)
    ELSE IF (init.config.tenants # None /\ Len(init.config.tenants[1]) > 0) \/ init.config.url # ""
    THEN HealthProbe(MakePrometheusRequest(init.config, "query", init.config.default_tenant,
                                           response))
    ELSE Health("unhealthy", "", init.config, None)

HealthCheck(c, response) == HealthAfterInitialize(InitializeTenants(c), response)

(***************************************************************************)
(* main.py: setup_environment and run_server.  The outcome of run_server   *)
(* lists, in the order they are made, its calls to setup_environment,      *)
(* sys.exit and mcp.run.                                                   *)
(***************************************************************************)
\* TransportType.values()
TransportValues == {"stdio", "http", "sse"}

\* main.config and server.config are the same object
ConfigIsServerConfig == TRUE

\* int(mcp_config.mcp_bind_port) raises for a string that is not a number
PortIsValid(mcp_config) == mcp_config.port_is_int

\* str(x).lower() on the transport names of the model
Lower(text) ==
    CASE text = "HTTP" -> "http"
      [] text = "SSE" -> "sse"
      [] text = "STDIO" -> "stdio"
      [] OTHER -> text

\* mutant of SetupAfterInitialize: the test for a configured backend is left out
SetupWithoutBackendTest(init) ==
    IF init.raised # ""
    THEN [value |-> FALSE, config |-> init.config]
    ELSE IF init.config.mcp_server_config = None
    THEN [value |-> TRUE, config |-> init.config]
    ELSE IF Lower(init.config.mcp_server_config[1].mcp_server_transport) \notin TransportValues
    THEN [value |-> FALSE, config |-> init.config]
    ELSE IF ~PortIsValid(init.config.mcp_server_config[1])
    THEN [value |-> FALSE, config |-> init.config]
    ELSE [value |-> TRUE, config |-> init.config]

\* the body after initialize_tenants() has returned or raised
SetupAfterInitialize(init) ==
    IF init.raised # ""
    THEN [value |-> FALSE, config |-> init.config]
    ELSE IF ~(init.config.tenants # None /\ Len(init.config.tenants[1]) > 0) /\ init.config.url = ""
    THEN [value |-> FALSE, config |-> init.config]
    ELSE IF init.config.mcp_server_config = None
    THEN [value |-> TRUE, config |-> init.config]
    ELSE IF Lower(init.config.mcp_server_config[1].mcp_server_transport) \notin TransportValues
    THEN [value |-> FALSE, config |-> init.config]
    ELSE IF ~PortIsValid(init.config.mcp_server_config[1])
    THEN [value |-> FALSE, config |-> init.config]
    ELSE [value |-> TRUE, config |-> init.config]

SetupEnvironment(c) ==
    SetupAfterInitialize(IF ConfigIsServerConfig THEN InitializeTenants(c)
                         ELSE [raised |-> "", msg |-> "", config |-> c])

\* a call made by run_server
CallOf(fn, value, host, port) == [fn |-> fn, value |-> value, host |-> host, port |-> port]

\* mcp.run(transport=..., host=..., port=...) for http and sse, mcp.run(transport=...) otherwise
McpRun(mcp_config) ==
    IF mcp_config.mcp_server_transport \in {"http", "sse"}
    THEN CallOf("mcp.run", mcp_config.mcp_server_transport, mcp_config.mcp_bind_host,
                mcp_config.mcp_bind_port)
    ELSE CallOf("mcp.run", mcp_config.mcp_server_transport, "", "")

\* mutant of RunServerAfterSetup: the failure is logged and the server is started all the same
RunServerWithoutExit(setup) ==
    IF setup.config.mcp_server_config = None
    THEN [raised |-> "AttributeError", config |-> setup.config,
          calls |-> <<CallOf("setup_environment", IF setup.value THEN "True" ELSE "False", "", "")>>]
    ELSE [raised |-> "", config |-> setup.config,
          calls |-> <<CallOf("setup_environment", IF setup.value THEN "True" ELSE "False", "", ""),
                      McpRun(setup.config.mcp_server_config[1])>>]

\* the body after setup_environment() has returned; sys.exit(1) raises SystemExit
RunServerAfterSetup(setup) ==
    IF ~setup.value
    THEN [raised |-> "SystemExit", config |-> setup.config,
          calls |-> <<CallOf("setup_environment", "False", "", ""), CallOf("sys.exit", "1", "", "")>>]
    ELSE IF setup.config.mcp_server_config = None
    THEN [raised |-> "AttributeError", config |-> setup.config,
          calls |-> <<CallOf("setup_environment", "True", "", "")>>]
    ELSE [raised |-> "", config |-> setup.config,
          calls |-> <<CallOf("setup_environment", "True", "", ""),
                      McpRun(setup.config.mcp_server_config[1])>>]

RunServer(c) == RunServerAfterSetup(SetupEnvironment(c))

(***************************************************************************)
(* State.  config is the module-level PrometheusConfig, _metrics_cache the *)
(* module-level cache dict, now the value time.time() returns.  last       *)
(* records the most recent call: its arguments, the state it started from, *)
(* what it returned or raised and the GET it issued.  threads holds, for    *)
(* each concurrent caller, the statement it has reached (pc), its          *)
(* arguments and its local variables; stored records, for each cache key,  *)
(* the data and the timestamp of the call whose store wrote the key last.  *)
(***************************************************************************)
StartTime == 1000

\* the callers that run concurrently
Threads == {"t1", "t2"}

\* {"data": None, "timestamp": 0}
NoEntry == [data |-> PyNone, timestamp |-> 0]

\* a caller that has not called yet
IdleFrame ==
    [pc |-> "idle", op |-> "", tenant |-> None,
     loaded |-> [raised |-> "", msg |-> "", tenants |-> <<>>, default_tenant |-> None],
     current_time |-> 0, cache_key |-> "", cache_entry |-> NoEntry, seen |-> NoEntry,
     data |-> PyNone, raised |-> "", msg |-> "", ret_tenant |-> None, ret_data |-> PyNone]

\* MCPServerConfig; the port is an int, or the string a test puts there
MCPServerConfig(mcp_server_transport, mcp_bind_host, mcp_bind_port, port_is_int) ==
    [mcp_server_transport |-> mcp_server_transport, mcp_bind_host |-> mcp_bind_host,
     mcp_bind_port |-> mcp_bind_port, port_is_int |-> port_is_int]

PrometheusConfig(url, username, password, token, org_id, custom_headers, tenants_raw, default_tenant_env) ==
    [url |-> url, url_ssl_verify |-> TRUE,
     mcp_server_config |-> Some(MCPServerConfig("stdio", "127.0.0.1", "8080", TRUE)),
     username |-> username, password |-> password, token |-> token, org_id |-> org_id,
     custom_headers |-> custom_headers,
     tenants_raw |-> tenants_raw, default_tenant_env |-> default_tenant_env,
     tenants |-> None, default_tenant |-> None]

NoLast(c, cache) ==
    [op |-> "none", tenant |-> None, auth_args |-> <<None, None, None>>,
     raised |-> "", msg |-> "", names |-> <<>>,
     ret_tenant |-> None, ret_data |-> PyNone, ret_auth |-> AuthNone,
     sent |-> None, response |-> NoResponse,
     pre_config |-> c, pre_cache |-> cache, key |-> "", current_time |-> 0,
     earlier |-> None, ret_bool |-> None, calls |-> <<>>,
     ret_status |-> "", connectivity |-> ""]

\* the most recent list_metrics call that came before the call now recorded
Earlier(l) ==
    IF l.op = "list_metrics"
    THEN Some([tenant |-> l.tenant, current_time |-> l.current_time,
               raised |-> l.raised, sent |-> l.sent])
    ELSE l.earlier

InitWith(configs) ==
    /\ config \in configs
    /\ _metrics_cache = <<>>
    /\ now = StartTime
    /\ ticks = 0
    /\ last = NoLast(config, <<>>)
    /\ threads = [t \in Threads |-> IdleFrame]
    /\ stored = <<>>

(***************************************************************************)
(* Calls                                                                   *)
(***************************************************************************)
InitializeTenantsReturn(r) ==
    /\ config' = r.config
    /\ last' = [NoLast(config, _metrics_cache) EXCEPT
                    !.op = "initialize_tenants", !.raised = r.raised, !.msg = r.msg]
    /\ UNCHANGED <<_metrics_cache, now, ticks, threads, stored>>

InitializeTenantsCall == InitializeTenantsReturn(InitializeTenants(config))

ResolveTenantReturn(tenant, r) ==
    /\ config' = r.config
    /\ last' = [NoLast(config, _metrics_cache) EXCEPT
                    !.op = "_resolve_tenant", !.tenant = tenant,
                    !.raised = r.raised, !.msg = r.msg, !.names = r.names,
                    !.ret_tenant = r.value]
    /\ UNCHANGED <<_metrics_cache, now, ticks, threads, stored>>

ResolveTenantCall ==
    \E tenant \in TenantArgs : ResolveTenantReturn(tenant, ResolveTenant(config, tenant))

OptStrings == {None, Some(""), Some("x")}

GetPrometheusAuthCall ==
    \E username \in OptStrings, password \in OptStrings, token \in OptStrings :
        /\ last' = [NoLast(config, _metrics_cache) EXCEPT
                        !.op = "get_prometheus_auth",
                        !.auth_args = <<username, password, token>>,
                        !.ret_auth = GetPrometheusAuth(config, username, password, token)]
        /\ UNCHANGED <<config, _metrics_cache, now, ticks, threads, stored>>

MakePrometheusRequestReturn(tenant, response, r) ==
    /\ config' = r.config
    /\ last' = [NoLast(config, _metrics_cache) EXCEPT
                    !.op = "make_prometheus_request", !.tenant = tenant,
                    !.raised = r.raised, !.msg = r.msg, !.names = r.names,
                    !.ret_data = r.value, !.sent = r.sent,
                    !.response = IF r.sent = None THEN NoResponse ELSE response]
    /\ UNCHANGED <<_metrics_cache, now, ticks, threads, stored>>

MakePrometheusRequestStep(tenants, responses) ==
    \E tenant \in tenants, response \in responses :
        MakePrometheusRequestReturn(tenant, response,
                                    MakePrometheusRequest(config, "query", tenant, response))

\* the selectors and answers of the program's specification; the
\* label-values endpoint answers with a list of metric names, or fails
Selectors == {None, Some("prod"), Some("staging"), Some("ghost")}

CacheResponses ==
    {ConnectionError, Envelope("error", Some("bad_data"), None)} \cup {Success(d) : d \in MetricLists}

MakePrometheusRequestCall == MakePrometheusRequestStep(Selectors, CacheResponses)

HealthCheckReturn(response, r) ==
    /\ config' = r.config
    /\ last' = [NoLast(config, _metrics_cache) EXCEPT
                    !.op = "health_check", !.tenant = r.config.default_tenant,
                    !.ret_status = r.status, !.connectivity = r.connectivity,
                    !.sent = r.sent,
                    !.response = IF r.sent = None THEN NoResponse ELSE response]
    /\ UNCHANGED <<_metrics_cache, now, ticks, threads, stored>>

HealthCheckCall ==
    \E response \in Responses : HealthCheckReturn(response, HealthCheck(config, response))

GetCacheKeyReturn(tenant, r) ==
    /\ config' = r.config
    /\ last' = [NoLast(config, _metrics_cache) EXCEPT
                    !.op = "_get_cache_key", !.tenant = tenant,
                    !.raised = r.raised, !.msg = r.msg, !.key = r.value]
    /\ UNCHANGED <<_metrics_cache, now, ticks, threads, stored>>

GetCacheKeyCall ==
    \E tenant \in Selectors : GetCacheKeyReturn(tenant, GetCacheKey(config, tenant))

GetCachedMetricsReturn(tenant, response, r) ==
    /\ config' = r.config
    /\ _metrics_cache' = r.cache
    /\ last' = [NoLast(config, _metrics_cache) EXCEPT
                    !.op = "get_cached_metrics", !.tenant = tenant,
                    !.raised = r.raised, !.msg = r.msg,
                    !.ret_data = r.value, !.sent = r.sent,
                    !.response = IF r.sent = None THEN NoResponse ELSE response,
                    !.key = r.key, !.current_time = now]
    /\ UNCHANGED <<now, ticks, threads, stored>>

GetCachedMetricsCall ==
    \E tenant \in Selectors, response \in CacheResponses :
        GetCachedMetricsReturn(tenant, response,
                               GetCachedMetrics(config, _metrics_cache, now, tenant, response))

\* get_cached_metrics against a backend that may also answer "data": null
GetCachedMetricsAnyCall ==
    \E tenant \in {None, Some("prod")}, response \in CacheResponses \cup {Success(PyNone)} :
        GetCachedMetricsReturn(tenant, response,
                               GetCachedMetrics(config, _metrics_cache, now, tenant, response))

ListMetricsReturn(tenant, response, r) ==
    /\ config' = r.config
    /\ last' = [NoLast(config, _metrics_cache) EXCEPT
                    !.op = "list_metrics", !.tenant = tenant,
                    !.raised = r.raised, !.msg = r.msg, !.names = r.names,
                    !.ret_data = r.value, !.sent = r.sent,
                    !.response = IF r.sent = None THEN NoResponse ELSE response,
                    !.current_time = now, !.earlier = Earlier(last)]
    /\ UNCHANGED <<_metrics_cache, now, ticks, threads, stored>>

ListMetricsCall ==
    \E tenant \in Selectors, response \in CacheResponses :
        ListMetricsReturn(tenant, response, ListMetrics(config, tenant, response))

SetupEnvironmentReturn(r) ==
    /\ config' = r.config
    /\ last' = [NoLast(config, _metrics_cache) EXCEPT
                    !.op = "setup_environment", !.ret_bool = Some(r.value)]
    /\ UNCHANGED <<_metrics_cache, now, ticks, threads, stored>>

SetupEnvironmentCall == SetupEnvironmentReturn(SetupEnvironment(config))

RunServerReturn(r) ==
    /\ config' = r.config
    /\ last' = [NoLast(config, _metrics_cache) EXCEPT
                    !.op = "run_server", !.raised = r.raised, !.calls = r.calls]
    /\ UNCHANGED <<_metrics_cache, now, ticks, threads, stored>>

RunServerCall == RunServerReturn(RunServer(config))

\* time passes between calls
TickSteps == {1, _CACHE_TTL - 1}

Tick ==
    \E d \in TickSteps :
        /\ ticks < MaxTicks
        /\ ticks' = ticks + 1
        /\ now' = now + d
        /\ last' = [NoLast(config, _metrics_cache) EXCEPT !.op = "tick", !.earlier = Earlier(last)]
        /\ UNCHANGED <<config, _metrics_cache, threads, stored>>

(***************************************************************************)
(* What the tests do to the module-level config between calls:             *)
(* config.tenants = None, and new values for tenants_raw and               *)
(* default_tenant_env.                                                     *)
(***************************************************************************)
ResetTenants ==
    /\ config.tenants # None
    /\ config' = [config EXCEPT !.tenants = None]
    /\ last' = [NoLast(config, _metrics_cache) EXCEPT !.op = "reset"]
    /\ UNCHANGED <<_metrics_cache, now, ticks, threads, stored>>

ReconfigRaws == {RawEmpty, RawInvalid, RawList(<<EntryBare>>), RawList(<<EntryStaging, EntryProd>>),
                 RawList(<<EntryProd, EntryProd>>)}

ReconfigEnvs == {Some(""), Some("prod")}

SetTenantsRaw ==
    \E raw \in ReconfigRaws, env \in ReconfigEnvs :
        /\ config.tenants_raw \notin ReconfigRaws
        /\ config' = [config EXCEPT !.tenants_raw = raw, !.default_tenant_env = env]
        /\ last' = [NoLast(config, _metrics_cache) EXCEPT !.op = "set"]
        /\ UNCHANGED <<_metrics_cache, now, ticks, threads, stored>>

(***************************************************************************)
(* Concurrent callers.  A step of a caller is one statement of the code;   *)
(* the statements of different callers interleave in any order.            *)
(***************************************************************************)
\* the caller is free to make a call
CanCall(t) == threads[t].pc \in {"idle", "done"}

\* where initialize_tenants() returns to
AfterInitialize(frame) == IF frame.op = "_resolve_tenant" THEN "select" ELSE "done"

\* _resolve_tenant(tenant) is entered: its first statement is initialize_tenants()
ThreadResolveTenant(t) ==
    \E tenant \in {None, Some("staging"), Some("ghost")} :
        /\ CanCall(t)
        /\ threads' = [threads EXCEPT ![t] =
                [IdleFrame EXCEPT !.pc = "initialize_tenants", !.op = "_resolve_tenant",
                                  !.tenant = tenant]]
        /\ UNCHANGED <<config, _metrics_cache, now, ticks, last, stored>>

\* initialize_tenants() is entered
ThreadInitializeTenants(t) ==
    /\ CanCall(t)
    /\ threads' = [threads EXCEPT ![t] =
            [IdleFrame EXCEPT !.pc = "initialize_tenants", !.op = "initialize_tenants"]]
    /\ UNCHANGED <<config, _metrics_cache, now, ticks, last, stored>>

\* the isinstance tests and tenants, default_tenant = _load_tenants(...)
ThreadLoadReturn(t, frame, loaded) ==
    /\ threads' = [threads EXCEPT ![t] =
            IF TenantsIsDict(config)
            THEN [frame EXCEPT !.pc = AfterInitialize(frame)]
            ELSE IF loaded.raised # ""
            THEN [frame EXCEPT !.pc = "done", !.raised = loaded.raised, !.msg = loaded.msg]
            ELSE [frame EXCEPT !.pc = "store_tenants", !.loaded = loaded]]
    /\ UNCHANGED <<config, _metrics_cache, now, ticks, last, stored>>

ThreadLoad(t) ==
    /\ threads[t].pc = "initialize_tenants"
    /\ ThreadLoadReturn(t, threads[t],
                        LoadTenants(config.tenants_raw, config.default_tenant_env,
                                    config.url_ssl_verify, config.custom_headers))

\* config.tenants = tenants
ThreadStoreTenants(t) ==
    /\ threads[t].pc = "store_tenants"
    /\ config' = [config EXCEPT !.tenants = Some(threads[t].loaded.tenants)]
    /\ threads' = [threads EXCEPT ![t].pc = "store_default"]
    /\ UNCHANGED <<_metrics_cache, now, ticks, last, stored>>

\* config.default_tenant = default_tenant
ThreadStoreDefault(t) ==
    /\ threads[t].pc = "store_default"
    /\ config' = [config EXCEPT !.default_tenant = threads[t].loaded.default_tenant]
    /\ threads' = [threads EXCEPT ![t].pc = AfterInitialize(threads[t])]
    /\ UNCHANGED <<_metrics_cache, now, ticks, last, stored>>

\* the rest of _resolve_tenant, reading the registry and the default tenant
ThreadSelectReturn(t, r) ==
    /\ threads' = [threads EXCEPT ![t] =
            [threads[t] EXCEPT !.pc = "done", !.raised = r.raised, !.msg = r.msg,
                               !.ret_tenant = r.value]]
    /\ UNCHANGED <<config, _metrics_cache, now, ticks, last, stored>>

ThreadSelect(t) ==
    /\ threads[t].pc = "select"
    /\ ThreadSelectReturn(t, SelectTenant([raised |-> "", msg |-> "", config |-> config],
                                          threads[t].tenant))

\* get_cached_metrics() is entered: current_time = time.time()
ThreadGetCachedMetrics(t) ==
    /\ CanCall(t)
    /\ threads' = [threads EXCEPT ![t] =
            [IdleFrame EXCEPT !.pc = "lookup", !.op = "get_cached_metrics",
                              !.current_time = now]]
    /\ UNCHANGED <<config, _metrics_cache, now, ticks, last, stored>>

\* cache_key = _get_cache_key(tenant); cache_entry = _metrics_cache.get(...);
\* the entry is returned when it is valid
ThreadLookupReturn(t, frame, key, cache_entry) ==
    /\ config' = key.config
    /\ threads' = [threads EXCEPT ![t] =
            IF key.raised # ""
            THEN [frame EXCEPT !.pc = "done", !.raised = key.raised, !.msg = key.msg]
            ELSE IF CacheValid(cache_entry, frame.current_time)
            THEN [frame EXCEPT !.pc = "done", !.cache_key = key.value,
                               !.cache_entry = cache_entry,
                               !.seen = IF key.value \in DOMAIN stored
                                        THEN stored[key.value] ELSE NoEntry,
                               !.ret_data = cache_entry.data]
            ELSE [frame EXCEPT !.pc = "fetch", !.cache_key = key.value,
                               !.cache_entry = cache_entry,
                               !.seen = IF key.value \in DOMAIN stored
                                        THEN stored[key.value] ELSE NoEntry]]
    /\ UNCHANGED <<_metrics_cache, now, ticks, last, stored>>

ThreadLookupKey(t, key) ==
    ThreadLookupReturn(t, threads[t], key,
                       IF key.raised = "" THEN CacheGet(_metrics_cache, key.value) ELSE NoEntry)

ThreadLookup(t) ==
    /\ threads[t].pc = "lookup"
    /\ ThreadLookupKey(t, GetCacheKey(config, threads[t].tenant))

\* data = make_prometheus_request("label/__name__/values", tenant=tenant), and
\* the fallback of except Exception when it raises
ThreadFetchReturn(t, frame, req) ==
    /\ config' = req.config
    /\ threads' = [threads EXCEPT ![t] =
            IF req.raised # ""
            THEN [frame EXCEPT !.pc = "done",
                               !.ret_data = IF frame.cache_entry.data # PyNone
                                            THEN frame.cache_entry.data ELSE PyList(<<>>)]
            ELSE [frame EXCEPT !.pc = "store", !.data = req.value]]
    /\ UNCHANGED <<_metrics_cache, now, ticks, last, stored>>

ThreadFetch(t) ==
    \E response \in CacheResponses :
        /\ threads[t].pc = "fetch"
        /\ ThreadFetchReturn(t, threads[t],
                             MakePrometheusRequest(config, "label/__name__/values",
                                                   threads[t].tenant, response))

\* _metrics_cache[cache_key] = {"data": data, "timestamp": current_time}, then
\* the debug line (len(data) raises TypeError when data is None) and return data
ThreadStore(t) ==
    /\ threads[t].pc = "store"
    /\ _metrics_cache' = CachePut(_metrics_cache, threads[t].cache_key, threads[t].data,
                                  threads[t].current_time)
    /\ stored' = [k \in (DOMAIN stored) \cup {threads[t].cache_key} |->
                     IF k = threads[t].cache_key
                     THEN [data |-> threads[t].data, timestamp |-> threads[t].current_time]
                     ELSE stored[k]]
    /\ threads' = [threads EXCEPT ![t] =
            [threads[t] EXCEPT
                !.pc = "done",
                !.ret_data = IF threads[t].data # PyNone THEN threads[t].data
                             ELSE IF threads[t].cache_entry.data # PyNone
                             THEN threads[t].cache_entry.data
                             ELSE PyList(<<>>)]]
    /\ UNCHANGED <<config, now, ticks, last>>

(***************************************************************************)
(* Specifications                                                          *)
(***************************************************************************)
\* the tenant registry, over every tenant definition up to MaxTenants entries
ConfigConfigs ==
    {PrometheusConfig("http://g/", Some(""), Some(""), Some(""), Some(""), headers, raw, env) :
        headers \in GlobalHeaders, raw \in Raws, env \in DefaultTenantEnvs}

InitConfig == InitWith(ConfigConfigs)

NextConfig == InitializeTenantsCall \/ ResolveTenantCall \/ ResetTenants \/ SetTenantsRaw

SpecConfig == InitConfig /\ [][NextConfig]_vars

\* request dispatch, over the global credentials, org id and custom headers
RequestHeaderSets ==
    {None, Some(EmptyDict), Some([h \in {"X-Custom-Header"} |-> "custom-value"]),
     Some([h \in {"Authorization"} |-> "Basic custom"]),
     Some([h \in {"X-Scope-OrgID"} |-> "custom-org"])}

RequestRaws == {RawEmpty, RawList(<<EntryProd, EntryStaging>>), RawList(<<EntryBare>>)}

RequestConfigs ==
    {PrometheusConfig(url, username, password, token, org_id, headers, raw, Some("")) :
        url \in {"", "http://g/"},
        username \in {Some(""), Some("user")}, password \in {Some(""), Some("pass")},
        token \in {Some(""), Some("gtok")}, org_id \in {Some(""), Some("org")},
        headers \in RequestHeaderSets, raw \in RequestRaws}

InitRequest == InitWith(RequestConfigs)

RequestResponses == {Success(PyList(<<"up">>)), ConnectionError}

HeadersRequestCall == MakePrometheusRequestStep(TenantArgs, RequestResponses)

NextRequest == HeadersRequestCall

SpecRequest == InitRequest /\ [][NextRequest]_vars

\* get_prometheus_auth, over its arguments and the global credentials
AuthConfigs ==
    {PrometheusConfig("http://g/", username, password, token, Some(""), None, RawEmpty, Some("")) :
        username \in {Some(""), Some("user")}, password \in {Some(""), Some("pass")},
        token \in {Some(""), Some("gtok")}}

InitAuth == InitWith(AuthConfigs)

NextAuth == GetPrometheusAuthCall

SpecAuth == InitAuth /\ [][NextAuth]_vars

\* the classification of the backend's answer, over every answer of Responses
ClassifyConfigs ==
    {PrometheusConfig("http://g/", Some(""), Some(""), Some("gtok"), Some(""), None, raw, Some("")) :
        raw \in {RawEmpty, RawList(<<EntryProd, EntryStaging>>), RawList(<<EntryBare>>)}}

InitClassify == InitWith(ClassifyConfigs)

ClassifyRequestCall == MakePrometheusRequestStep(Selectors, Responses)

NextClassify == ClassifyRequestCall

SpecClassify == InitClassify /\ [][NextClassify]_vars

\* the metric-listing tool, called again and again as time passes
ListingConfigs ==
    {PrometheusConfig("http://g/", Some(""), Some(""), Some("gtok"), Some(""), None, raw, Some("")) :
        raw \in {RawEmpty, RawList(<<EntryProd, EntryStaging>>)}}

InitListing == InitWith(ListingConfigs)

NextListing == ListMetricsCall \/ Tick

SpecListing == InitListing /\ [][NextListing]_vars

\* concurrent first callers of the lazy initialization, on a store that
\* holds a valid tenant array
InitThreadsConfigs ==
    {PrometheusConfig("http://g/", Some(""), Some(""), Some(""), Some(""), None, raw, env) :
        raw \in {RawList(<<EntryProd, EntryStaging>>), RawList(<<EntryBare>>)},
        env \in {Some(""), Some("staging")}}

InitInitThreads == InitWith(InitThreadsConfigs)

NextInitThreads ==
    \E t \in Threads :
        \/ ThreadResolveTenant(t)
        \/ ThreadInitializeTenants(t)
        \/ ThreadLoad(t)
        \/ ThreadStoreTenants(t)
        \/ ThreadStoreDefault(t)
        \/ ThreadSelect(t)

SpecInitThreads == InitInitThreads /\ [][NextInitThreads]_vars

\* concurrent callers of get_cached_metrics on one key, as time passes
CacheThreadsConfigs ==
    {PrometheusConfig("http://g/", Some(""), Some(""), Some("gtok"), Some(""), None, RawEmpty, Some(""))}

InitCacheThreads == InitWith(CacheThreadsConfigs)

NextCacheThreads ==
    \/ \E t \in Threads :
          \/ ThreadGetCachedMetrics(t)
          \/ ThreadLookup(t)
          \/ ThreadFetch(t)
          \/ ThreadStore(t)
    \/ Tick

SpecCacheThreads == InitCacheThreads /\ [][NextCacheThreads]_vars

\* startup, over the global URL, the tenant definition and the MCP transport
\* settings (None and a port that is no number are what the tests put there)
McpConfigs ==
    {None, Some(MCPServerConfig("stdio", "127.0.0.1", "8080", TRUE)),
     Some(MCPServerConfig("http", "localhost", "8080", TRUE)),
     Some(MCPServerConfig("sse", "localhost", "8080", TRUE)),
     Some(MCPServerConfig("wrong_transport", "localhost", "5000", TRUE)),
     Some(MCPServerConfig("http", "localhost", "some_string", FALSE))}

MainConfigs ==
    {[PrometheusConfig(url, Some(""), Some(""), Some(""), Some(""), None, raw, env)
         EXCEPT !.mcp_server_config = mcp_config] :
        url \in {"", "http://g/"},
        raw \in {RawEmpty, RawInvalid, RawList(<<EntryProd, EntryStaging>>), RawList(<<EntryBare>>)},
        env \in {Some(""), Some("ghost")},
        mcp_config \in McpConfigs}

InitMain == InitWith(MainConfigs)

NextMain == SetupEnvironmentCall \/ RunServerCall

SpecMain == InitMain /\ [][NextMain]_vars

\* the health check, over the global URL, the tenant definition and every
\* answer of Responses to the probe
HealthConfigs ==
    {PrometheusConfig(url, Some(""), Some(""), Some("gtok"), Some(""), None, raw, env) :
        url \in {"", "http://g/"},
        raw \in {RawEmpty, RawInvalid, RawList(<<EntryProd, EntryStaging>>), RawList(<<EntryBare>>)},
        env \in {Some(""), Some("staging")}}

InitHealth == InitWith(HealthConfigs)

NextHealth == HealthCheckCall

SpecHealth == InitHealth /\ [][NextHealth]_vars

\* the cache in front of a backend that may also answer "data": null
RefreshConfigs ==
    {PrometheusConfig("http://g/", Some(""), Some(""), Some("gtok"), Some(""), None, RawEmpty, Some("")),
     PrometheusConfig("", Some(""), Some(""), Some("gtok"), Some(""), None,
                      RawList(<<EntryProd, EntryStaging>>), Some("staging"))}

InitRefresh == InitWith(RefreshConfigs)

NextRefresh == GetCachedMetricsAnyCall \/ Tick

SpecRefresh == InitRefresh /\ [][NextRefresh]_vars

\* the program: every call, from a configuration as the environment sets it
Configs ==
    {PrometheusConfig("http://g/", Some(""), Some(""), Some("gtok"), Some(""), None, RawEmpty, Some("")),
     PrometheusConfig("", Some(""), Some(""), Some("gtok"), Some(""), None, RawEmpty, Some("ghost")),
     PrometheusConfig("http://g/", Some(""), Some(""), Some("gtok"), Some(""), None, RawInvalid, Some("")),
     PrometheusConfig("http://g/", Some(""), Some(""), Some("gtok"), Some(""), None,
                      RawList(<<EntryProd, EntryStaging>>), Some("")),
     PrometheusConfig("", Some(""), Some(""), Some("gtok"), Some(""), None,
                      RawList(<<EntryProd, EntryStaging>>), Some("staging"))}

Init == InitWith(Configs)

Next ==
    \/ InitializeTenantsCall
    \/ ResolveTenantCall
    \/ MakePrometheusRequestCall
    \/ GetCacheKeyCall
    \/ GetCachedMetricsCall
    \/ Tick

Spec == Init /\ [][Next]_vars

(***************************************************************************)
(* Vocabulary of the properties                                            *)
(***************************************************************************)
\* the last call was op
Called(op) == last.op = op

\* the entry the last get_cached_metrics call found under its key
HadEntry == last.key \in DOMAIN last.pre_cache

PriorEntry == CacheGet(last.pre_cache, last.key)

\* the age of that entry when the call read the clock
Age == last.current_time - PriorEntry.timestamp

\* the last call issued a GET
Fetched == last.sent # None

\* the answer to that GET is a failure
UpstreamFailed == Fetched /\ Classify(config, last.sent, last.response).raised # ""

\* the backend the last call was dispatched to: a TenantConfig or None
Resolved == ResolveTenant(config, last.tenant).value

EffectiveUsername == IF Resolved # None THEN Resolved[1].username ELSE config.username

EffectivePassword == IF Resolved # None THEN Resolved[1].password ELSE config.password

EffectiveToken == IF Resolved # None THEN Resolved[1].token ELSE config.token

EffectiveOrgId ==
    IF Resolved # None /\ Resolved[1].org_id # None THEN Resolved[1].org_id ELSE config.org_id

EffectiveCustomHeaders == IF Resolved # None THEN Resolved[1].custom_headers ELSE config.custom_headers

EffectiveAuth == GetPrometheusAuth(config, EffectiveUsername, EffectivePassword, EffectiveToken)

HasHeader(custom_headers, name) == custom_headers # None /\ name \in DOMAIN custom_headers[1]

\* the tenant array the configuration declares
Declared == config.tenants_raw.items

\* every element is an object with a non-empty name and url and well-formed headers
WellFormed(items) ==
    \A i \in 1..Len(items) :
        /\ items[i].is_dict
        /\ Truthy(items[i].name)
        /\ Truthy(items[i].url)
        /\ items[i].custom_headers # None => items[i].custom_headers_is_dict

NamesUnique(items) ==
    \A i, j \in 1..Len(items) : (items[i].name = items[j].name) => (i = j)

ValidArray(raw) ==
    raw.kind = "list" /\ Len(raw.items) >= 1 /\ WellFormed(raw.items) /\ NamesUnique(raw.items)

\* some element's name duplicates an earlier element's name
HasDuplicateName(raw) ==
    /\ raw.kind = "list"
    /\ \E i, j \in 1..Len(raw.items) :
          /\ i < j
          /\ raw.items[i].is_dict /\ raw.items[j].is_dict
          /\ raw.items[i].name # None
          /\ raw.items[i].name = raw.items[j].name

\* the names among the elements of the raw definition (none when it is empty)
DeclaredNames(raw) ==
    {raw.items[i].name : i \in {k \in 1..Len(raw.items) : raw.items[k].is_dict}}

\* the call found the registry uninitialized, so it is the parsing call
FirstInitialization == Called("initialize_tenants") /\ last.pre_config.tenants = None

C1_WitnessHit ==
    /\ Called("get_cached_metrics") /\ HadEntry
    /\ Age = _CACHE_TTL - 1
    /\ ~Fetched

C3_AuthHeaderWins ==
    (/\ Called("make_prometheus_request") /\ Fetched
     /\ EffectiveAuth.type = "dict"
     /\ HasHeader(EffectiveCustomHeaders, "Authorization")) =>
        last.sent[1].headers["Authorization"] = EffectiveAuth.dict["Authorization"]

(***************************************************************************)
(* C4.  With a scope id configured, the X-Scope-OrgID header sent is the   *)
(* configured scope id, also when the effective custom headers hold an     *)
(* X-Scope-OrgID key.                                                      *)
(***************************************************************************)
C4_ScopeIdNotShadowed ==
    (Called("make_prometheus_request") /\ Fetched /\ Truthy(EffectiveOrgId)) =>
        /\ "X-Scope-OrgID" \in DOMAIN last.sent[1].headers
        /\ last.sent[1].headers["X-Scope-OrgID"] = EffectiveOrgId[1]

(***************************************************************************)
(* C5.  Auth precedence, for arguments of which at least one is supplied:  *)
(* a non-empty token gives the bearer header, whatever the username and    *)
(* password; otherwise a non-empty username with a non-empty password      *)
(* gives basic auth with that pair; otherwise there is no auth.            *)
(***************************************************************************)
C5_AuthPrecedence ==
    LET username == last.auth_args[1]
        password == last.auth_args[2]
        token == last.auth_args[3]
    IN  (Called("get_prometheus_auth") /\ last.auth_args # <<None, None, None>>) =>
            /\ Truthy(token) =>
                  /\ last.ret_auth.type = "dict"
                  /\ DOMAIN last.ret_auth.dict = {"Authorization"}
                  /\ last.ret_auth.dict["Authorization"] = "Bearer " \o token[1]
            /\ (~Truthy(token) /\ Truthy(username) /\ Truthy(password)) =>
                  /\ last.ret_auth.type = "HTTPBasicAuth"
                  /\ last.ret_auth.username = username[1]
                  /\ last.ret_auth.password = password[1]
            /\ (~Truthy(token) /\ ~(Truthy(username) /\ Truthy(password))) =>
                  last.ret_auth.type = "None"

\* token, username and password all set: the bearer header
C5_Witness ==
    /\ Called("get_prometheus_auth")
    /\ last.auth_args = <<Some("x"), Some("x"), Some("x")>>
    /\ last.ret_auth.type = "dict"

(***************************************************************************)
(* C6.  The first initialization from a valid array of N >= 1 unique       *)
(* names, with a default override that is empty or names a declared        *)
(* tenant, stores a registry of exactly those N names in declaration       *)
(* order, and a default tenant equal to the override when it names a       *)
(* declared tenant, else to the first declared name.                       *)
(***************************************************************************)
C6_RegistryFromValidArray ==
    (/\ FirstInitialization
     /\ ValidArray(config.tenants_raw)
     /\ Truthy(config.default_tenant_env) =>
            config.default_tenant_env \in DeclaredNames(config.tenants_raw)) =>
        /\ last.raised = ""
        /\ config.tenants # None
        /\ Len(config.tenants[1]) = Len(Declared)
        /\ \A i \in 1..Len(Declared) : Some(config.tenants[1][i].name) = Declared[i].name
        /\ config.default_tenant =
              IF config.default_tenant_env \in DeclaredNames(config.tenants_raw)
              THEN config.default_tenant_env
              ELSE Declared[1].name

\* two tenants, the override naming the second one
C6_Witness ==
    /\ FirstInitialization
    /\ ValidArray(config.tenants_raw)
    /\ Len(Declared) = 2
    /\ config.default_tenant_env = Declared[2].name
    /\ config.default_tenant = Declared[2].name
    /\ Len(config.tenants[1]) = 2

(***************************************************************************)
(* C7.  The first initialization from an array in which a name duplicates  *)
(* an earlier one raises ConfigError and leaves the registry and the       *)
(* default tenant as they were.                                            *)
(***************************************************************************)
C7_DuplicateNameFails ==
    (FirstInitialization /\ HasDuplicateName(config.tenants_raw)) =>
        /\ last.raised = "ConfigError"
        /\ config.tenants = last.pre_config.tenants
        /\ config.default_tenant = last.pre_config.default_tenant

\* the duplicate is rejected while a default tenant of an earlier registry is stored
C7_Witness ==
    /\ FirstInitialization /\ HasDuplicateName(config.tenants_raw)
    /\ last.msg = "Duplicate tenant name"
    /\ last.pre_config.default_tenant # None
    /\ config.default_tenant = last.pre_config.default_tenant

(***************************************************************************)
(* C8.  For every raw definition, the empty one included, initialization   *)
(* raises ConfigError when the raw default-tenant name is non-empty and    *)
(* not among the parsed names.                                             *)
(***************************************************************************)
C8_UnknownDefaultFails ==
    (/\ FirstInitialization
     /\ Truthy(config.default_tenant_env)
     /\ config.default_tenant_env \notin DeclaredNames(config.tenants_raw)) =>
        last.raised = "ConfigError"

(***************************************************************************)
(* C9.  Idempotence: a call that finds the registry a mapping, empty or    *)
(* not, returns without raising and leaves the whole configuration as it   *)
(* was, whatever tenants_raw and default_tenant_env now hold.              *)
(***************************************************************************)
C9_InitializeIdempotent ==
    (Called("initialize_tenants") /\ last.pre_config.tenants # None) =>
        /\ last.raised = ""
        /\ config = last.pre_config

\* the raw definition has changed to one that parsing would reject or read differently
C9_Witness ==
    /\ Called("initialize_tenants") /\ last.pre_config.tenants # None
    /\ LET loaded == LoadTenants(config.tenants_raw, config.default_tenant_env,
                                 config.url_ssl_verify, config.custom_headers)
       IN  loaded.raised = "" /\ Some(loaded.tenants) # config.tenants
    /\ config.tenants = Some(<<>>)

(***************************************************************************)
(* C10.  With an empty registry _resolve_tenant returns the global         *)
(* backend (None) for every selector and raises nothing.                   *)
(***************************************************************************)
C10_NoTenantsGlobalBackend ==
    (Called("_resolve_tenant") /\ config.tenants = Some(<<>>)) =>
        /\ last.raised = ""
        /\ last.ret_tenant = None

\* an unknown selector, accepted
C10_Witness ==
    /\ Called("_resolve_tenant") /\ config.tenants = Some(<<>>)
    /\ last.tenant = Some("ghost")
    /\ last.ret_tenant = None

(***************************************************************************)
(* C11.  With tenants registered, resolving a name (the supplied selector, *)
(* or the default tenant when the selector is omitted or empty) that is    *)
(* not a key of the registry raises UnknownTenant with every registered    *)
(* name in its message; resolving a registered name returns the            *)
(* configuration stored under that name.                                   *)
(***************************************************************************)
C11_UnknownTenantListsNames ==
    LET selected == Or(last.tenant, config.default_tenant)
        registry == config.tenants[1]
    IN  (Called("_resolve_tenant") /\ TenantsEnabled(config) /\ Truthy(selected)) =>
            /\ (\A i \in 1..Len(registry) : registry[i].name # selected[1]) =>
                  /\ last.raised = "UnknownTenant"
                  /\ last.msg = "Unknown tenant"
                  /\ \A i \in 1..Len(registry) :
                        \E j \in 1..Len(last.names) : last.names[j] = registry[i].name
                  /\ last.ret_tenant = None
            /\ \A i \in 1..Len(registry) :
                  (registry[i].name = selected[1]) =>
                      /\ last.raised = ""
                      /\ last.ret_tenant = Some(registry[i])

\* "ghost" against a registry of two tenants
C11_Witness ==
    /\ Called("_resolve_tenant") /\ TenantsEnabled(config)
    /\ Len(config.tenants[1]) = 2
    /\ last.tenant = Some("ghost")
    /\ last.raised = "UnknownTenant"
    /\ Len(last.names) = 2

\* the second registered tenant, by name
C11_WitnessFound ==
    /\ Called("_resolve_tenant") /\ TenantsEnabled(config)
    /\ Len(config.tenants[1]) = 2
    /\ last.tenant = Some(config.tenants[1][2].name)
    /\ last.ret_tenant = Some(config.tenants[1][2])

(***************************************************************************)
(* C12.  With an empty registry and an empty global URL,                   *)
(* make_prometheus_request raises ConfigMissing and issues no GET.         *)
(***************************************************************************)
C12_ConfigMissingBeforeGet ==
    (Called("make_prometheus_request") /\ config.tenants = Some(<<>>) /\ config.url = "") =>
        /\ last.raised = "ConfigMissing"
        /\ last.msg = "Prometheus configuration is missing"
        /\ ~Fetched
        /\ last.ret_data = PyNone

\* global credentials are set and a tenant is named, and still nothing is sent
C12_Witness ==
    /\ Called("make_prometheus_request") /\ config.tenants = Some(<<>>) /\ config.url = ""
    /\ config.token = Some("gtok")
    /\ last.tenant = Some("ghost")
    /\ last.raised = "ConfigMissing"
    /\ last.sent = None

(***************************************************************************)
(* C13.  No retry: a make_prometheus_request call issues at most one GET;  *)
(* when that GET fails in transport (connection, timeout) the call raises  *)
(* that exception itself, and when the response status is not 2xx it       *)
(* raises the HTTPError of raise_for_status itself, neither wrapped in      *)
(* another error nor given another message.                                *)
(***************************************************************************)
C13_NoRetryErrorsPropagate ==
    Called("make_prometheus_request") =>
        /\ Len(last.sent) <= 1
        /\ (Fetched /\ last.response.transport # "ok") =>
              /\ last.raised = last.response.transport
              /\ last.msg = ""
              /\ last.ret_data = PyNone
        /\ (Fetched /\ last.response.transport = "ok" /\ ~last.response.http_ok) =>
              /\ last.raised = "HTTPError"
              /\ last.msg = ""
              /\ last.ret_data = PyNone

\* a timeout, after exactly one GET to the tenant's backend
C13_Witness ==
    /\ Called("make_prometheus_request")
    /\ last.response = Timeout
    /\ Len(last.sent) = 1
    /\ last.sent[1].url = "https://p/api/v1/query"
    /\ last.raised = "Timeout"

\* a non-2xx response whose body is a success envelope
C13_WitnessHttp ==
    /\ Called("make_prometheus_request") /\ Fetched
    /\ last.response = HttpError(Success(PyList(<<"up">>)))
    /\ last.raised = "HTTPError"

(***************************************************************************)
(* C14.  A 2xx answer that decodes to an envelope with a status: when the  *)
(* status is not "success" and the envelope carries an error string, the   *)
(* call raises UpstreamError with the message "Prometheus API error: "     *)
(* followed by that string and returns no data, also when the envelope     *)
(* carries data; when the status is "success" and the data is a dict or a  *)
(* list, the call returns that data unchanged.                             *)
(***************************************************************************)
C14_UpstreamErrorOrData ==
    LET response == last.response IN
    (/\ Called("make_prometheus_request") /\ Fetched
     /\ response.transport = "ok" /\ response.http_ok /\ response.body = "json"
     /\ response.has_status) =>
        /\ (response.status # "success" /\ response.has_error) =>
              /\ last.raised = "UpstreamError"
              /\ last.msg = "Prometheus API error: " \o response.error
              /\ last.ret_data = PyNone
        /\ (/\ response.status = "success" /\ response.has_data
            /\ response.data.type \in {"list", "dict"}) =>
              /\ last.raised = ""
              /\ last.ret_data = response.data

\* an error envelope that carries partial data: the data is not returned
C14_Witness ==
    /\ Called("make_prometheus_request") /\ Fetched
    /\ last.response = Envelope("error", Some("partial"), Some(PyList(<<"up">>)))
    /\ last.raised = "UpstreamError"
    /\ last.msg = "Prometheus API error: partial"
    /\ last.ret_data = PyNone

\* a success envelope whose data is a dict
C14_WitnessData ==
    /\ Called("make_prometheus_request") /\ Fetched
    /\ last.response = Success(PyDict(<<"resultType", "result">>))
    /\ last.raised = ""
    /\ last.ret_data = PyDict(<<"resultType", "result">>)

(***************************************************************************)
(* C15.  Whatever exception response.json() raises for a body that is not  *)
(* valid JSON, the call raises DecodeError with the message "Invalid JSON  *)
(* response from Prometheus".                                              *)
(***************************************************************************)
C15_DecodeErrorForAnyBody ==
    (/\ Called("make_prometheus_request") /\ Fetched
     /\ last.response.transport = "ok" /\ last.response.http_ok
     /\ last.response.body # "json") =>
        /\ last.raised = "DecodeError"
        /\ last.msg = "Invalid JSON response from Prometheus"

(***************************************************************************)
(* C16.  Of two list_metrics calls for the same tenant, the second made    *)
(* less than _CACHE_TTL seconds after the first and the first having       *)
(* obtained the list, at most one issues a GET.                            *)
(***************************************************************************)
C16_ListMetricsUsesCache ==
    (/\ Called("list_metrics") /\ last.earlier # None
     /\ last.earlier[1].tenant = last.tenant
     /\ last.earlier[1].raised = ""
     /\ last.current_time - last.earlier[1].current_time < _CACHE_TTL) =>
        ~(last.earlier[1].sent # None /\ Fetched)

(***************************************************************************)
(* C17.  Concurrent first callers on a store that holds a valid tenant     *)
(* array: in every state a non-empty registry comes with a default tenant  *)
(* that is one of its names, and no _resolve_tenant call fails with "No    *)
(* tenant specified".                                                      *)
(***************************************************************************)
C17_NoPartialRegistry ==
    ValidArray(config.tenants_raw) =>
        /\ TenantsEnabled(config) =>
              /\ Truthy(config.default_tenant)
              /\ HasKey(config.tenants[1], config.default_tenant[1])
        /\ \A t \in Threads : threads[t].msg # "No tenant specified"

(***************************************************************************)
(* C18.  Concurrent get_cached_metrics calls on one key: every entry of    *)
(* the cache, and every entry a caller has read from it, has the data and  *)
(* the timestamp that one call stored together, the data that call         *)
(* fetched and the time that call read.                                    *)
(***************************************************************************)
C18_NoTornEntry ==
    /\ \A k \in DOMAIN _metrics_cache :
          k \in DOMAIN stored /\ _metrics_cache[k] = stored[k]
    /\ \A t \in Threads :
          threads[t].op = "get_cached_metrics" => threads[t].cache_entry = threads[t].seen

\* a caller holds an expired entry it has read, and meanwhile the other
\* caller has replaced that entry with other data under a later timestamp
C18_Witness ==
    \E r \in Threads, w \in Threads :
        /\ r # w
        /\ threads[r].pc = "fetch" /\ threads[r].cache_entry.data # PyNone
        /\ threads[w].pc = "done" /\ threads[w].op = "get_cached_metrics"
        /\ threads[r].cache_key = threads[w].cache_key
        /\ _metrics_cache[threads[w].cache_key] =
              [data |-> threads[w].data, timestamp |-> threads[w].current_time]
        /\ threads[w].data # threads[r].cache_entry.data
        /\ threads[w].current_time > threads[r].cache_entry.timestamp

(***************************************************************************)
(* C19.  A get_cached_metrics call for one key, whether it is served from  *)
(* the cache, refreshes the entry or fails to, leaves the entry of every   *)
(* other key as it was and adds no other key.                              *)
(***************************************************************************)
C19_KeysIndependent ==
    (Called("get_cached_metrics") /\ last.raised = "") =>
        /\ \A k \in DOMAIN last.pre_cache :
              (k # last.key) => (k \in DOMAIN _metrics_cache /\ _metrics_cache[k] = last.pre_cache[k])
        /\ DOMAIN _metrics_cache \subseteq (DOMAIN last.pre_cache) \cup {last.key}

\* the entry of one tenant is refreshed while the other tenant has an entry
C19_Witness ==
    /\ Called("get_cached_metrics") /\ Fetched /\ ~UpstreamFailed
    /\ last.key = "prod" /\ HadEntry
    /\ "staging" \in DOMAIN last.pre_cache
    /\ _metrics_cache["prod"] # last.pre_cache["prod"]
    /\ _metrics_cache["staging"] = last.pre_cache["staging"]
    /\ _metrics_cache["staging"].data # _metrics_cache["prod"].data

(***************************************************************************)
(* C20.  run_server calls setup_environment first; when that returns       *)
(* False it calls sys.exit(1), the process exits and mcp.run is not        *)
(* called; every call of mcp.run comes after a setup_environment call      *)
(* that returned True.                                                     *)
(***************************************************************************)
C20_NoServerAfterFailedSetup ==
    LET calls == last.calls
        SetupReturned(value) == CallOf("setup_environment", value, "", "")
    IN  Called("run_server") =>
            /\ Len(calls) >= 1 /\ calls[1].fn = "setup_environment"
            /\ (calls[1] = SetupReturned("False")) =>
                  /\ calls = <<SetupReturned("False"), CallOf("sys.exit", "1", "", "")>>
                  /\ last.raised = "SystemExit"
            /\ \A i \in 1..Len(calls) :
                  (calls[i].fn = "mcp.run") =>
                      /\ \E j \in 1..(i - 1) : calls[j] = SetupReturned("True")
                      /\ \A j \in 1..Len(calls) : calls[j] # SetupReturned("False")

\* an invalid tenant definition: exit status 1, with a URL and a transport set
C20_Witness ==
    /\ Called("run_server")
    /\ config.tenants_raw = RawInvalid /\ config.url = "http://g/"
    /\ config.mcp_server_config = Some(MCPServerConfig("http", "localhost", "8080", TRUE))
    /\ last.calls = <<CallOf("setup_environment", "False", "", ""), CallOf("sys.exit", "1", "", "")>>

\* the server is started on the http transport after a successful setup
C20_WitnessRun ==
    /\ Called("run_server")
    /\ last.calls = <<CallOf("setup_environment", "True", "", ""),
                      CallOf("mcp.run", "http", "localhost", "8080")>>

(***************************************************************************)
(* C21.  For a configuration that carries its MCP settings,                *)
(* setup_environment returns True only when the registry is initialized    *)
(* (initialization raised nothing), a global URL or at least one tenant    *)
(* is configured, and the transport is stdio, http or sse; when one of     *)
(* the three fails it returns False.                                       *)
(***************************************************************************)
C21_SetupBlocksStartup ==
    LET initialized == config.tenants # None
        backend == config.url # "" \/ (initialized /\ Len(config.tenants[1]) > 0)
        transport == config.mcp_server_config[1].mcp_server_transport \in {"stdio", "http", "sse"}
    IN  (Called("setup_environment") /\ config.mcp_server_config # None) =>
            /\ last.ret_bool \in {Some(TRUE), Some(FALSE)}
            /\ (last.ret_bool = Some(TRUE)) => (initialized /\ backend /\ transport)
            /\ ~(initialized /\ backend /\ transport) => (last.ret_bool = Some(FALSE))

\* a URL and a valid transport are set, and the tenant definition is invalid
C21_Witness ==
    /\ Called("setup_environment")
    /\ config.url = "http://g/"
    /\ config.mcp_server_config = Some(MCPServerConfig("http", "localhost", "8080", TRUE))
    /\ config.tenants_raw = RawInvalid
    /\ last.ret_bool = Some(FALSE)

\* tenants and no global URL: startup goes on
C21_WitnessTrue ==
    /\ Called("setup_environment")
    /\ config.url = "" /\ config.tenants # None /\ Len(config.tenants[1]) = 2
    /\ config.mcp_server_config = Some(MCPServerConfig("sse", "localhost", "8080", TRUE))
    /\ last.ret_bool = Some(TRUE)

\* every tenant definition valid, a URL set, and an unknown transport
C21_WitnessTransport ==
    /\ Called("setup_environment")
    /\ config.url = "http://g/" /\ config.tenants # None
    /\ config.mcp_server_config = Some(MCPServerConfig("wrong_transport", "localhost", "5000", TRUE))
    /\ last.ret_bool = Some(FALSE)

(***************************************************************************)
(* C22.  After the initialization that parsed the tenant array, the        *)
(* custom headers of every tenant are the global custom headers overlaid   *)
(* with the headers the tenant declares, the tenant's value on a shared    *)
(* key; they are unset when neither the global nor the tenant's headers    *)
(* are given; a header value that another tenant declares is in them only  *)
(* when the tenant itself or the global map gives that value; and the      *)
(* global map is as it was.                                                *)
(***************************************************************************)
C22_TenantHeaderMerge ==
    LET AsMap(h) == IF h = None THEN EmptyDict ELSE h[1]
        global == AsMap(config.custom_headers)
        Own(i) == AsMap(Declared[i].custom_headers)
        Effective(i) == AsMap(config.tenants[1][i].custom_headers)
    IN  (FirstInitialization /\ last.raised = "" /\ config.tenants_raw.kind = "list") =>
            /\ Len(config.tenants[1]) = Len(Declared)
            /\ config.custom_headers = last.pre_config.custom_headers
            /\ \A i \in 1..Len(Declared) :
                  /\ DOMAIN Effective(i) = (DOMAIN global) \cup (DOMAIN Own(i))
                  /\ \A k \in DOMAIN Effective(i) :
                        Effective(i)[k] = IF k \in DOMAIN Own(i) THEN Own(i)[k] ELSE global[k]
                  /\ (config.custom_headers = None /\ Declared[i].custom_headers = None) =>
                        config.tenants[1][i].custom_headers = None
                  /\ \A j \in 1..Len(Declared), k \in DOMAIN Effective(i) :
                        (j # i /\ k \in DOMAIN Own(j) /\ Effective(i)[k] = Own(j)[k]) =>
                            \/ (k \in DOMAIN Own(i) /\ Own(i)[k] = Own(j)[k])
                            \/ (k \in DOMAIN global /\ global[k] = Own(j)[k])

\* the global and one tenant's headers share a key: that tenant has its own
\* value, the other tenant the global one
C22_Witness ==
    /\ FirstInitialization /\ last.raised = "" /\ config.tenants_raw.kind = "list"
    /\ Len(config.tenants[1]) = 2
    /\ config.custom_headers = Some([h \in {"X-Global", "X-Test"} |-> "global"])
    /\ \E i, j \in 1..2 :
          /\ config.tenants[1][i].custom_headers =
                Some([h \in {"X-Global", "X-Test"} |-> IF h = "X-Test" THEN "value" ELSE "global"])
          /\ config.tenants[1][j].custom_headers = Some([h \in {"X-Global", "X-Test"} |-> "global"])

\* neither global headers nor headers of the tenant: unset
C22_WitnessUnset ==
    /\ FirstInitialization /\ last.raised = "" /\ config.tenants_raw.kind = "list"
    /\ config.custom_headers = None
    /\ \E i \in 1..Len(Declared) :
          Declared[i].custom_headers = None /\ config.tenants[1][i].custom_headers = None

C23_WitnessKey ==
    /\ Called("_get_cache_key")
    /\ last.pre_config.tenants = None /\ TenantsEnabled(config)
    /\ last.tenant = None
    /\ last.key = "staging"

\* no tenants: a named selector maps to the sentinel
C23_WitnessSentinel ==
    /\ Called("get_cached_metrics") /\ config.tenants = Some(<<>>)
    /\ last.tenant = Some("ghost")
    /\ last.key = "default"

(***************************************************************************)
(* C24.  health_check raises nothing and returns a status: "unhealthy"     *)
(* when the tenant initialization fails or when neither a global URL nor   *)
(* a tenant is configured, and then no GET is issued; "degraded" when the  *)
(* probe of the default backend fails, whatever the failure; "healthy"     *)
(* when the probe succeeds.  A call issues at most one GET.                *)
(***************************************************************************)
C24_HealthCheckStatus ==
    LET initialized == config.tenants # None
        backend == config.url # "" \/ (initialized /\ Len(config.tenants[1]) > 0)
        answer == last.response
        probe_ok == /\ Fetched
                    /\ answer.transport = "ok" /\ answer.http_ok /\ answer.body = "json"
                    /\ answer.has_status /\ answer.status = "success" /\ answer.has_data
    IN  Called("health_check") =>
            /\ last.raised = ""
            /\ last.ret_status \in {"healthy", "degraded", "unhealthy"}
            /\ Len(last.sent) <= 1
            /\ (~initialized \/ ~backend) => (last.ret_status = "unhealthy" /\ ~Fetched)
            /\ (initialized /\ backend /\ ~probe_ok) => last.ret_status = "degraded"
            /\ (initialized /\ backend /\ probe_ok) => last.ret_status = "healthy"

\* the default tenant's backend answers with an error envelope: degraded
C24_Witness ==
    /\ Called("health_check")
    /\ config.url = "" /\ config.default_tenant = Some("staging")
    /\ Fetched /\ last.sent[1].url = "https://s/api/v1/query"
    /\ last.response = Envelope("error", Some("bad_data"), None)
    /\ last.ret_status = "degraded"

\* a global URL is set and the tenant definition is invalid: unhealthy, no GET
C24_WitnessUnhealthy ==
    /\ Called("health_check")
    /\ config.url = "http://g/" /\ config.tenants_raw = RawInvalid
    /\ last.ret_status = "unhealthy" /\ ~Fetched

\* the global backend answers: healthy
C24_WitnessHealthy ==
    /\ Called("health_check")
    /\ config.tenants = Some(<<>>)
    /\ Fetched /\ last.sent[1].url = "http://g/api/v1/query"
    /\ last.ret_status = "healthy"

(***************************************************************************)
(* C25.  The cache is written only by a refresh that succeeds: a           *)
(* get_cached_metrics call that is served from the cache, or whose refresh *)
(* ends in the fallback of the except clause, leaves the cache equal to    *)
(* what it was, and no call of any operation removes a key.                *)
(***************************************************************************)
\* the try block raised: the request failed, or len(data) raised on the value returned
RefreshFailed ==
    Fetched /\ (UpstreamFailed \/ last.response.data = PyNone)

C25_CacheWrittenBySuccessOnly ==
    /\ DOMAIN last.pre_cache \subseteq DOMAIN _metrics_cache
    /\ (Called("get_cached_metrics") /\ (~Fetched \/ RefreshFailed)) =>
            _metrics_cache = last.pre_cache

(***************************************************************************)
(* C26.  One channel per request.  With a bearer artifact the request      *)
(* carries an Authorization header (the bearer header, unless the custom   *)
(* headers replace it) and no auth argument; with a basic-auth artifact    *)
(* the pair is the auth argument and the only Authorization header the     *)
(* request can carry is one of the custom headers; with no artifact there  *)
(* is no auth argument and again no Authorization header but a custom one. *)
(***************************************************************************)
\* the Authorization header of the request, if any, is the custom one
OnlyCustomAuthorization ==
    "Authorization" \in DOMAIN last.sent[1].headers =>
        /\ HasHeader(EffectiveCustomHeaders, "Authorization")
        /\ last.sent[1].headers["Authorization"] = EffectiveCustomHeaders[1]["Authorization"]

C26_OneCredentialChannel ==
    (Called("make_prometheus_request") /\ Fetched) =>
        /\ EffectiveAuth.type = "dict" =>
                /\ last.sent[1].auth = AuthNone
                /\ "Authorization" \in DOMAIN last.sent[1].headers
                /\ ~HasHeader(EffectiveCustomHeaders, "Authorization") =>
                        last.sent[1].headers["Authorization"] = EffectiveAuth.dict["Authorization"]
        /\ EffectiveAuth.type = "HTTPBasicAuth" =>
                /\ last.sent[1].auth = EffectiveAuth
                /\ OnlyCustomAuthorization
        /\ EffectiveAuth.type = "None" =>
                /\ last.sent[1].auth = AuthNone
                /\ OnlyCustomAuthorization

\* a bearer token next to a username and password: header only
C26_Witness ==
    /\ Called("make_prometheus_request") /\ Fetched
    /\ config.username = Some("user") /\ config.password = Some("pass")
    /\ config.token = Some("gtok") /\ Resolved = None
    /\ last.sent[1].headers["Authorization"] = "Bearer gtok"
    /\ last.sent[1].auth = AuthNone

\* a username and password alone: auth argument only
C26_WitnessBasic ==
    /\ Called("make_prometheus_request") /\ Fetched
    /\ EffectiveAuth = AuthBasic("user", "pass")
    /\ last.sent[1].auth = AuthBasic("user", "pass")
    /\ "Authorization" \notin DOMAIN last.sent[1].headers

\* no credentials: neither
C26_WitnessNone ==
    /\ Called("make_prometheus_request") /\ Fetched
    /\ EffectiveAuth = AuthNone
    /\ last.sent[1].auth = AuthNone
    /\ "Authorization" \notin DOMAIN last.sent[1].headers

(***************************************************************************)
(* C28.  The credentials of a request to a tenant are those of the         *)
(* tenant's own username, password and token: a non-empty token gives the  *)
(* bearer header, otherwise a non-empty username and password give the     *)
(* basic-auth pair, otherwise the request has no auth argument and no      *)
(* Authorization header but a custom one, whatever the global credentials. *)
(***************************************************************************)
\* the artifact of the tenant's own fields
OwnAuth ==
    IF Truthy(Resolved[1].token) THEN AuthBearer(Resolved[1].token[1])
    ELSE IF Truthy(Resolved[1].username) /\ Truthy(Resolved[1].password)
    THEN AuthBasic(Resolved[1].username[1], Resolved[1].password[1])
    ELSE AuthNone

C28_NoGlobalCredentialsToTenant ==
    (Called("make_prometheus_request") /\ Fetched /\ Resolved # None) =>
        /\ last.sent[1].auth = (IF OwnAuth.type = "dict" THEN AuthNone ELSE OwnAuth)
        /\ OwnAuth.type # "dict" => OnlyCustomAuthorization

(***************************************************************************)
(* C27.  Concurrent refreshes of one key: no step takes the timestamp of   *)
(* an entry of the cache backwards.                                        *)
(***************************************************************************)
C27_TimestampNeverDecreases ==
    [][\A k \in DOMAIN _metrics_cache :
          /\ k \in DOMAIN _metrics_cache'
          /\ _metrics_cache'[k].timestamp >= _metrics_cache[k].timestamp]_vars

(***************************************************************************)
(* C29.  While the tenant definition is invalid the registry is never      *)
(* initialized: every initialize_tenants, _resolve_tenant,                 *)
(* make_prometheus_request, _get_cache_key and get_cached_metrics call     *)
(* finds it uninitialized, raises the ConfigError of the definition,       *)
(* leaves it uninitialized, returns no backend, issues no GET and leaves   *)
(* the cache as it was.                                                    *)
(***************************************************************************)
C29_FailedInitializationPersists ==
    config.tenants_raw.kind = "invalid" =>
        /\ config.tenants = None
        /\ config.default_tenant = None
        /\ last.op \in {"initialize_tenants", "_resolve_tenant", "make_prometheus_request",
                        "_get_cache_key", "get_cached_metrics"} =>
                /\ last.pre_config.tenants = None
                /\ last.raised = "ConfigError"
                /\ last.msg = "Invalid PROMETHEUS_TENANTS JSON"
                /\ last.ret_tenant = None
                /\ ~Fetched
                /\ _metrics_cache = last.pre_cache

\* a request fails although a global URL is set, after the clock has advanced
C29_Witness ==
    /\ config.tenants_raw.kind = "invalid" /\ config.url = "http://g/"
    /\ ticks > 0
    /\ Called("make_prometheus_request")
    /\ last.raised = "ConfigError" /\ ~Fetched

\* the cache raises as well: the key is computed outside its try block
C29_WitnessCache ==
    /\ config.tenants_raw.kind = "invalid"
    /\ Called("get_cached_metrics")
    /\ last.raised = "ConfigError" /\ _metrics_cache = <<>>

(***************************************************************************)
(* C30.  The answer is classified in a fixed order: a transport failure is *)
(* raised as it is; otherwise a non-2xx status raises HTTPError, whatever  *)
(* the body; otherwise a body that does not decode raises a decoding       *)
(* error; only then is the envelope's status read.  UpstreamError is       *)
(* raised for 2xx answers alone, with the backend's error string.          *)
(***************************************************************************)
C30_ClassificationOrder ==
    LET response == last.response IN
    (Called("make_prometheus_request") /\ Fetched) =>
        /\ response.transport # "ok" => last.raised = response.transport
        /\ (response.transport = "ok" /\ ~response.http_ok) =>
              (last.raised = "HTTPError" /\ last.msg = "")
        /\ (response.transport = "ok" /\ response.http_ok /\ response.body # "json") =>
              last.raised \in {"DecodeError", "requests.exceptions.JSONDecodeError"}
        /\ last.raised = "UpstreamError" =>
              /\ response.transport = "ok" /\ response.http_ok /\ response.body = "json"
              /\ response.has_status /\ response.status # "success"
              /\ last.msg = "Prometheus API error: "
                                \o (IF response.has_error THEN response.error ELSE "Unknown error")

\* a non-2xx answer whose body is a well-formed error envelope
C30_Witness ==
    /\ Called("make_prometheus_request") /\ Fetched
    /\ last.response = HttpError(Envelope("error", Some("bad_data"), None))
    /\ last.raised = "HTTPError"

\* a non-2xx answer whose body does not decode
C30_WitnessBody ==
    /\ Called("make_prometheus_request") /\ Fetched
    /\ last.response = HttpError(BadJson("json.JSONDecodeError"))
    /\ last.raised = "HTTPError"

\* the same envelope under a 2xx status
C30_WitnessUpstream ==
    /\ Called("make_prometheus_request") /\ Fetched
    /\ last.response = Envelope("error", Some("bad_data"), None)
    /\ last.raised = "UpstreamError" /\ last.msg = "Prometheus API error: bad_data"

====
